---- MODULE Spec2Model ----
(***************************************************************************)
(* Model of eluv-io/utc-go: the global clock registry (nowFn, nowFnMu,     *)
(* atomicClock), the install protocol (allowClock / setClock), the public  *)
(* accessor utc.Now() and the settable TestClock.                          *)
(*                                                                         *)
(* A call running on a goroutine is an activation: its position and its   *)
(* locals.  The activations in flight form a bag, since goroutines have no *)
(* identity the program can observe.  A call is executed in the steps in   *)
(* which it touches shared memory: one step per critical section of the    *)
(* mutex, per read or write of the plain variable nowFn, per atomic load,  *)
(* store or swap, and per sample of the system clock.  Steps that touch    *)
(* nothing shared are folded into the shared step they follow.             *)
(***************************************************************************)
EXTENDS Integers, Sequences, FiniteSets, Bags, TLC

\* ------------------------------------------------------------------ bounds
NThreads    == 2    \* goroutines running a call at one time
NClocks     == 2    \* TestClock instances
MaxOps      == 3    \* calls started in one behaviour
MaxTicks    == 1    \* ticks of the system clock in one behaviour
TicksPerMs  == 2    \* resolution of the system clock: ticks in a millisecond

Clocks == 1..NClocks
\* Reading of the system clock when the process starts: past the zero time
\* and off a millisecond boundary; the last reading of a behaviour.
T0       == TicksPerMs + 1
LastTime == T0 + MaxTicks

\* ------------------------------------------------------- the UTC value type
\* time.Time: an instant counted in ticks since the zero time, and whether
\* it carries a monotonic clock reading.
TimeOf(w, hm) == [w |-> w, hm |-> hm]

\* New(t) = UTC{Time: t.UTC(), mono: t}; t.UTC() strips the monotonic reading.
New(t) == [Time |-> t.w, mono |-> t]

Zero == [Time |-> 0, mono |-> TimeOf(0, FALSE)]

\* time.Time.Round(d): nearest multiple of d since the zero time, halfway
\* values round up, the monotonic reading is stripped.
TimeRound(t, d) ==
    LET r == t.w % d
    IN  IF d <= 0 THEN TimeOf(t.w, FALSE)
        ELSE IF r + r < d THEN TimeOf(t.w - r, FALSE)
        ELSE TimeOf(t.w + d - r, FALSE)

StripMono(u) == New(TimeOf(u.Time, FALSE))
Round(u, d)  == New(TimeRound(u.mono, d))
Add(u, d)    == New(TimeOf(u.mono.w + d, u.mono.hm))

\* now(): New(time.Now()) when the system clock reads tau.
now(tau) == New(TimeOf(tau, TRUE))

\* The three policy clocks of clock.go.
MonoNow(tau) == now(tau)
WallClockNow(ms, tau) ==
    LET ret == New(TimeOf(now(tau).Time, FALSE))
    IN  IF ms THEN Round(ret, TicksPerMs) ELSE ret

\* ------------------------------------------------------------ capabilities
\* A Clock stored in the registry: ClockFn(now), ClockFn(fn) for a function
\* returning a constant, or a TestClock.
DefaultClock == [kind |-> "default"]
FnClock(v)   == [kind |-> "fn", v |-> v]
TcClock(c)   == [kind |-> "tc", c |-> c]

\* Policy flags (mono, millisPrecision) a TestClock was constructed with:
\* NewMonoClock, NewWallClockMs, NewWallClock in turn.
TcMono(c) == c % 3 = 1
TcMs(c)   == c % 3 = 2

\* Instants handed to MockNow(time) and TestClock.Set, durations for Add.
U1 == New(TimeOf(9, FALSE))
U2 == New(TimeOf(7, TRUE))
MockInstants == {U1}
FnInstants   == {U1, Zero}
SetInstants  == {Zero, U2}
Durations    == {1}

NoVal == [none |-> TRUE]
NoCap == [kind |-> "none"]
Nil   == [kind |-> "nil"]    \* the nil *clocker

VARIABLES
    nowFn,        \* the plain variable nowFn: "now" or "nowFnClock"
    nowFnMu,      \* the mutex nowFnMu: TRUE while locked
    atomicClock,  \* atomic.Pointer[clocker]: Nil, or the field c of the
                  \* clocker it points to (a clocker is never written again)
    tcNow,        \* TestClock.now of each clock: NoVal is the nil pointer
    isMock,       \* TestClock.isMock of each clock
    realTime,     \* the last reading taken of the system clock
    calls,        \* the bag of activations in flight
    ops,          \* calls started so far
    \* history variables
    nowFnWrites,  \* writes of nowFn so far
    installsDone, \* TRUE once a setClock call has returned
    overlapped,   \* TRUE once two install calls have overlapped
    quiet         \* the last install to return was a MockNow that ran alone,
                  \* and no install has started since

shared  == <<nowFn, nowFnMu, atomicClock, tcNow, isMock, realTime>>
history == <<nowFnWrites, installsDone, overlapped, quiet>>
vars    == <<shared, calls, ops, history>>

\* An activation of operation op standing at p.  Its fields:
\*   pc        position; "done" is a call that has returned
\*   op, cap   the operation, and the capability an install call installs
\*   c, v, d   the TestClock, instant and duration of a Set / Add call
\*   old       setClock's local old
\*   fn        the function value Now() read from nowFn
\*   clk       the Clock Now() got from getClock
\*   ret       the value the call returned
\*   read      the reading of the system clock the call took, 0 if none
\* and, recorded for the properties,
\*   replaced      the capability the call's own store replaced
\*   stored        the call has made its store
\*   solo          the install call has overlapped no other install call
\*   calm          quiet held when the Now() call started, and no install
\*                 call has started since
\*   afterInstall  a setClock call had returned when the Now() call started
\*   seen          the capabilities active at some point of the Now() call
\*                 up to its atomic load
\*   dirty         a TestClock was written during the call
NewCall(op, p) ==
    [pc |-> p, op |-> op, cap |-> NoCap, c |-> 0, v |-> NoVal, d |-> 0,
     old |-> NoCap, fn |-> "none", clk |-> NoCap, ret |-> NoVal, read |-> 0,
     replaced |-> NoCap, stored |-> FALSE, solo |-> FALSE, calm |-> FALSE,
     afterInstall |-> FALSE, seen |-> {}, dirty |-> FALSE]

Calls == BagToSet(calls)
One(r) == SetToBag({r})

InstallOps == {"MockNow", "ResetNow", "MockNowFn"}
Running(r)   == r.pc # "done"
InInstall(r) == Running(r) /\ r.op \in InstallOps
InNow(r)     == Running(r) /\ r.op = "Now"

\* The registry's active clock: the clock of the clocker atomicClock points
\* to, the default clock while atomicClock is nil.
ActiveClock == IF atomicClock # Nil THEN atomicClock ELSE DefaultClock

\* Slip: getClock ignores the stored clocker.
getClockIgnoresStore == DefaultClock

\* getClock(): fn := ClockFn(now); m := atomicClock.Load(); the stored clock
\* when m and m.c are not nil.
getClock == ActiveClock

Init ==
    /\ nowFn = "now"
    /\ nowFnMu = FALSE
    /\ atomicClock = Nil
    /\ tcNow = [c \in Clocks |-> NoVal]
    /\ isMock = [c \in Clocks |-> FALSE]
    /\ realTime = T0
    /\ calls = EmptyBag
    /\ ops = 0
    /\ nowFnWrites = 0
    /\ installsDone = FALSE
    /\ overlapped = FALSE
    /\ quiet = FALSE

\* ------------------------------------------------------- the system clock
\* time.Now(): a reading not earlier than the last one taken.
Readings == realTime..LastTime

\* ------------------------------------------------------------- TestClock
\* TestClock.wc(): the reading of the clock's policy clock.
wc(c, tau) ==
    IF ~TcMono(c)
    THEN IF TcMs(c) THEN WallClockNow(TRUE, tau) ELSE WallClockNow(FALSE, tau)
    ELSE MonoNow(tau)

\* Slip: set rounds for a millisecond clock but never strips the monotonic
\* reading, so a wall clock records u as it is.
setTargetKeepsMono(c, u) ==
    IF u = Zero THEN NoVal
    ELSE IF TcMs(c) /\ ~TcMono(c) THEN Round(u, TicksPerMs)
    ELSE u

\* The pointer TestClock.set stores for u: nil for Zero, else u after the
\* clock's policy.
setTarget(c, u) ==
    IF u = Zero THEN NoVal
    ELSE IF ~TcMono(c)
         THEN IF TcMs(c) THEN Round(StripMono(u), TicksPerMs) ELSE StripMono(u)
         ELSE u

\* What Swap / Load return through the nil check: Zero for nil.
Deref(n) == IF n = NoVal THEN Zero ELSE n

\* TestClock.Now() once c.now is loaded as n: passthrough when nil or Zero.
IsUnset(n) == n = NoVal \/ n = Zero

\* ------------------------------------------------- activations: start, step
\* Dropping the result of a returned call touches nothing but the call, so
\* it is taken before any other step.
NoneDone == \A u \in Calls : u.pc # "done"

\* Activation r stands at p and is the one to move.
At(r, p) == r.pc = p /\ NoneDone

\* A call can start: a goroutine is free.
CanStart == NoneDone /\ ops < MaxOps /\ BagCardinality(calls) < NThreads

\* Activation r moves to r2; the others stay.
Step(r, r2) == calls' = (calls (-) One(r)) (+) One(r2)

\* The call has returned and its result is dropped.
Return(r) ==
    /\ r.pc = "done"
    /\ calls' = calls (-) One(r)
    /\ UNCHANGED <<shared, ops, history>>

\* A write of c.now reaches every Now() call in flight.
Dirtied(u) == IF u.op = "Now" THEN [u EXCEPT !.dirty = TRUE] ELSE u

\* A call of setClock starts: no install call in flight is alone any more,
\* and no Now() call in flight runs without an install beside it.
Joined(u) ==
    [u EXCEPT !.solo = IF InInstall(u) THEN FALSE ELSE @, !.calm = FALSE]

\* Entry of a call that ends in setClock(cap).
EnterInstall(op, cap) ==
    LET others == {u \in Calls : InInstall(u)}
        r == [NewCall(op, "ac_lock") EXCEPT !.cap = cap,
                                            !.solo = (others = {})]
    IN  /\ CanStart
        /\ calls' = BagOfAll(Joined, calls) (+) One(r)
        /\ ops' = ops + 1
        /\ overlapped' = (overlapped \/ others # {})
        /\ quiet' = FALSE
        /\ UNCHANGED <<shared, nowFnWrites, installsDone>>

\* TestClock.MockNow(): setClock(c), then c.isMock.Store(true).
TcMockNow(c) == EnterInstall("MockNow", TcClock(c))

\* MockNowClock(clock): clock.MockNow().
MockNowClock(c) == TcMockNow(c)

\* Slip: ResetNow assigns nowFn = now as before the registry existed, which
\* puts the accessor back on the unsynchronized path.
ResetNowDirect ==
    /\ CanStart
    /\ calls' = calls (+) One([NewCall("ResetNow", "done")
                                  EXCEPT !.cap = DefaultClock])
    /\ ops' = ops + 1
    /\ nowFn' = "now"
    /\ UNCHANGED <<nowFnMu, atomicClock, tcNow, isMock, realTime, history>>

\* ResetNow(): setNowFn(now), that is setClock(ClockFn(now)).
ResetNow == EnterInstall("ResetNow", DefaultClock)

\* TestClock.UnmockNow(): ResetNow(), whatever the receiver.
TcUnmockNow(c) == ResetNow

\* MockNowFn(fn): setNowFn(fn); fn ranges over the constant functions.
MockNowFn(v) == EnterInstall("MockNowFn", FnClock(v))

\* MockNow(time): MockNowFn of the function returning time.
MockNow(v) == MockNowFn(v)

\* ------------------------------------------------------------- allowClock
\* Slip: allowClock without the comparison, writing nowFn on every call.
allowClockAlwaysWrite(r) ==
    /\ At(r, "ac_lock")
    /\ ~nowFnMu
    /\ nowFnMu' = TRUE
    /\ Step(r, [r EXCEPT !.pc = "ac_write"])
    /\ UNCHANGED <<nowFn, atomicClock, tcNow, isMock, realTime, ops, history>>

\* nowFnMu.Lock(); if nowFn is nowFnClock already: return, with the deferred
\* Unlock.  The comparison reads nowFn under the mutex every write of nowFn
\* is made under, so the fast path is one step.
allowClock(r) ==
    /\ At(r, "ac_lock")
    /\ ~nowFnMu
    /\ IF nowFn = "nowFnClock"
       THEN /\ Step(r, [r EXCEPT !.pc = "sc_load"])
            /\ UNCHANGED nowFnMu
       ELSE /\ Step(r, [r EXCEPT !.pc = "ac_write"])
            /\ nowFnMu' = TRUE
    /\ UNCHANGED <<nowFn, atomicClock, tcNow, isMock, realTime, ops, history>>

\* nowFn = nowFnClock, then the deferred nowFnMu.Unlock().
allowClockWrite(r) ==
    /\ At(r, "ac_write")
    /\ nowFn' = "nowFnClock"
    /\ nowFnMu' = FALSE
    /\ nowFnWrites' = nowFnWrites + 1
    /\ Step(r, [r EXCEPT !.pc = "sc_load"])
    /\ UNCHANGED <<atomicClock, tcNow, isMock, realTime, ops,
                   installsDone, overlapped, quiet>>

\* --------------------------------------------------------------- setClock
\* Slip: setClock notifies the previous clock as soon as it has loaded it,
\* before the new clock is stored.
setClockLoadNotifies(r) ==
    /\ At(r, "sc_load")
    /\ Step(r, [r EXCEPT !.pc = "sc_store", !.old = getClock])
    /\ isMock' = IF getClock.kind = "tc"
                 THEN [isMock EXCEPT ![getClock.c] = FALSE]
                 ELSE isMock
    /\ UNCHANGED <<nowFn, nowFnMu, atomicClock, tcNow, realTime, ops, history>>

\* old := getClock()
setClockLoad(r) ==
    /\ At(r, "sc_load")
    /\ Step(r, [r EXCEPT !.pc = "sc_store", !.old = getClock])
    /\ UNCHANGED <<shared, ops, history>>

\* The store of cap is seen by the Now() calls that have not loaded yet.
Sees(u, cap) ==
    IF u.pc \in {"now_read", "now_get"}
    THEN [u EXCEPT !.seen = @ \cup {cap}]
    ELSE u

\* n := &clocker{c: c}; atomicClock.Store(n)
setClockStore(r) ==
    LET SeesCap(u) == Sees(u, r.cap)
    IN  /\ At(r, "sc_store")
        /\ atomicClock' = r.cap
        /\ calls' = BagOfAll(SeesCap, calls (-) One(r))
                     (+) One([r EXCEPT !.pc = "sc_notify",
                                       !.replaced = ActiveClock,
                                       !.stored = TRUE])
        /\ UNCHANGED <<nowFn, nowFnMu, tcNow, isMock, realTime, ops, history>>

\* Slip: unMocked() also unsets the clock it notifies.
setClockNotifyUnsets(r) ==
    /\ At(r, "sc_notify")
    /\ isMock' = IF r.old.kind = "tc"
                 THEN [isMock EXCEPT ![r.old.c] = FALSE]
                 ELSE isMock
    /\ tcNow' = IF r.old.kind = "tc"
                THEN [tcNow EXCEPT ![r.old.c] = NoVal]
                ELSE tcNow
    /\ installsDone' = TRUE
    /\ Step(r, [r EXCEPT !.pc = IF r.op = "MockNow" THEN "mk_flag"
                                ELSE "done"])
    /\ UNCHANGED <<nowFn, nowFnMu, atomicClock, realTime, ops,
                   nowFnWrites, overlapped, quiet>>

\* Slip: setClock returns without notifying the previous clock.
setClockNoNotify(r) ==
    /\ At(r, "sc_notify")
    /\ installsDone' = TRUE
    /\ Step(r, [r EXCEPT !.pc = IF r.op = "MockNow" THEN "mk_flag"
                                ELSE "done"])
    /\ UNCHANGED <<shared, ops, nowFnWrites, overlapped, quiet>>

\* if old implements unMocked(): old.unMocked(); then setClock returns, to
\* MockNow's c.isMock.Store(true) or to the caller of ResetNow / MockNowFn.
setClockNotify(r) ==
    /\ At(r, "sc_notify")
    /\ isMock' = IF r.old.kind = "tc"
                 THEN [isMock EXCEPT ![r.old.c] = FALSE]
                 ELSE isMock
    /\ installsDone' = TRUE
    /\ Step(r, [r EXCEPT !.pc = IF r.op = "MockNow" THEN "mk_flag"
                                ELSE "done"])
    /\ UNCHANGED <<nowFn, nowFnMu, atomicClock, tcNow, realTime, ops,
                   nowFnWrites, overlapped, quiet>>

\* c.isMock.Store(true); return c
TcMockNowFlag(r) ==
    /\ At(r, "mk_flag")
    /\ isMock' = [isMock EXCEPT ![r.cap.c] = TRUE]
    /\ quiet' = r.solo
    /\ Step(r, [r EXCEPT !.pc = "done"])
    /\ UNCHANGED <<nowFn, nowFnMu, atomicClock, tcNow, realTime, ops,
                   nowFnWrites, installsDone, overlapped>>

\* ---------------------------------------------------------------- utc.Now
\* A write of nowFn is pending in allowClock.
WritePending == \E w \in Calls : w.pc = "ac_write"

\* Data race on nowFn: a write in allowClock and the unsynchronized read in
\* Now() are both about to happen, with nothing ordering them.
Race == \E w \in Calls, r \in Calls : w.pc = "ac_write" /\ r.pc = "now_read"

\* Now(): entry of the call.
Now ==
    /\ CanStart
    /\ calls' = calls (+) One([NewCall("Now", "now_read")
                                  EXCEPT !.seen = {ActiveClock},
                                         !.calm = quiet,
                                         !.afterInstall = installsDone])
    /\ ops' = ops + 1
    /\ UNCHANGED <<shared, history>>

\* The values the read of nowFn in Now() can yield.  The read is not
\* synchronized: when it races with the write in allowClock it yields the
\* value before or the value after the write (a func value is one word).
nowFnRead == IF WritePending THEN {nowFn, "nowFnClock"} ELSE {nowFn}

\* Slip: Now() takes nowFnMu to read nowFn.
NowReadLocked(r) ==
    /\ At(r, "now_read")
    /\ ~nowFnMu
    /\ \E f \in nowFnRead :
          Step(r, [r EXCEPT !.fn = f,
                            !.pc = IF f = "now" THEN "now_sys" ELSE "now_get"])
    /\ UNCHANGED <<shared, ops, history>>

\* return nowFn(): the read of nowFn.
NowRead(r) ==
    /\ At(r, "now_read")
    /\ \E f \in nowFnRead :
          Step(r, [r EXCEPT !.fn = f,
                            !.pc = IF f = "now" THEN "now_sys" ELSE "now_get"])
    /\ UNCHANGED <<shared, ops, history>>

\* nowFn is now: New(time.Now()).
NowDefault(r) ==
    /\ At(r, "now_sys")
    /\ \E tau \in Readings :
          /\ realTime' = tau
          /\ Step(r, [r EXCEPT !.pc = "done", !.clk = DefaultClock,
                               !.read = tau, !.ret = now(tau)])
    /\ UNCHANGED <<nowFn, nowFnMu, atomicClock, tcNow, isMock, ops, history>>

\* nowFn is nowFnClock: getClock(), the atomic load.
nowFnClockGet(r) ==
    /\ At(r, "now_get")
    /\ Step(r, [r EXCEPT !.pc = "now_call", !.clk = getClock])
    /\ UNCHANGED <<shared, ops, history>>

\* Slip: ClockFn.Now treats a Zero result of its function as no result and
\* reads the system clock, the way TestClock.Now treats a Zero c.now.
ClockNowZeroFallback(r) ==
    /\ At(r, "now_call")
    /\ IF r.clk.kind = "tc"
       THEN /\ Step(r, IF IsUnset(tcNow[r.clk.c])
                       THEN [r EXCEPT !.pc = "now_wc"]
                       ELSE [r EXCEPT !.pc = "done", !.ret = tcNow[r.clk.c]])
            /\ UNCHANGED realTime
       ELSE IF r.clk.kind = "fn" /\ r.clk.v # Zero
       THEN /\ Step(r, [r EXCEPT !.pc = "done", !.ret = r.clk.v])
            /\ UNCHANGED realTime
       ELSE \E tau \in Readings :
               /\ realTime' = tau
               /\ Step(r, [r EXCEPT !.pc = "done", !.read = tau,
                                    !.ret = now(tau)])
    /\ UNCHANGED <<nowFn, nowFnMu, atomicClock, tcNow, isMock, ops, history>>

\* Slip: TestClock.Now goes to wc() whatever c.now holds.
ClockNowPassthrough(r) ==
    /\ At(r, "now_call")
    /\ IF r.clk.kind = "tc"
       THEN /\ Step(r, [r EXCEPT !.pc = "now_wc"])
            /\ UNCHANGED realTime
       ELSE IF r.clk.kind = "fn"
       THEN /\ Step(r, [r EXCEPT !.pc = "done", !.ret = r.clk.v])
            /\ UNCHANGED realTime
       ELSE \E tau \in Readings :
               /\ realTime' = tau
               /\ Step(r, [r EXCEPT !.pc = "done", !.read = tau,
                                    !.ret = now(tau)])
    /\ UNCHANGED <<nowFn, nowFnMu, atomicClock, tcNow, isMock, ops, history>>

\* getClock().Now(): TestClock.Now loads c.now and returns it, or goes on
\* to wc() when it is nil or Zero; ClockFn calls its function, which for the
\* default clock is now().
ClockNow(r) ==
    /\ At(r, "now_call")
    /\ IF r.clk.kind = "tc"
       THEN /\ Step(r, IF IsUnset(tcNow[r.clk.c])
                       THEN [r EXCEPT !.pc = "now_wc"]
                       ELSE [r EXCEPT !.pc = "done", !.ret = tcNow[r.clk.c]])
            /\ UNCHANGED realTime
       ELSE IF r.clk.kind = "fn"
       THEN /\ Step(r, [r EXCEPT !.pc = "done", !.ret = r.clk.v])
            /\ UNCHANGED realTime
       ELSE \E tau \in Readings :
               /\ realTime' = tau
               /\ Step(r, [r EXCEPT !.pc = "done", !.read = tau,
                                    !.ret = now(tau)])
    /\ UNCHANGED <<nowFn, nowFnMu, atomicClock, tcNow, isMock, ops, history>>

\* return c.wc() of the TestClock the reader resolved to.
ClockNowWc(r) ==
    /\ At(r, "now_wc")
    /\ \E tau \in Readings :
          /\ realTime' = tau
          /\ Step(r, [r EXCEPT !.pc = "done", !.read = tau,
                               !.ret = wc(r.clk.c, tau)])
    /\ UNCHANGED <<nowFn, nowFnMu, atomicClock, tcNow, isMock, ops, history>>

\* --------------------------------------------------- TestClock.Set / Add
\* Slip: Set(u) stores the new pointer and returns what it then loads, the
\* new instant instead of the previous one.
TcSetReturnsNew(c, u) ==
    /\ CanStart
    /\ tcNow' = [tcNow EXCEPT ![c] = setTarget(c, u)]
    /\ calls' = BagOfAll(Dirtied, calls)
                 (+) One([NewCall("Set", "done")
                             EXCEPT !.c = c, !.v = u,
                                    !.ret = Deref(setTarget(c, u))])
    /\ ops' = ops + 1
    /\ UNCHANGED <<nowFn, nowFnMu, atomicClock, isMock, realTime, history>>

\* TestClock.Set(u): c.now.Swap(n), returns the previous instant.
TcSet(c, u) ==
    /\ CanStart
    /\ tcNow' = [tcNow EXCEPT ![c] = setTarget(c, u)]
    /\ calls' = BagOfAll(Dirtied, calls)
                 (+) One([NewCall("Set", "done")
                             EXCEPT !.c = c, !.v = u,
                                    !.ret = Deref(tcNow[c])])
    /\ ops' = ops + 1
    /\ UNCHANGED <<nowFn, nowFnMu, atomicClock, isMock, realTime, history>>

\* TestClock.Unset(): c.set(Zero).
TcUnset(c) == TcSet(c, Zero)

\* TestClock.Add(d): n := c.Now(), the load of c.now.
TcAdd(c, d) ==
    /\ CanStart
    /\ calls' = calls (+) One(
          IF IsUnset(tcNow[c])
          THEN [NewCall("Add", "add_wc") EXCEPT !.c = c, !.d = d]
          ELSE [NewCall("Add", "add_set") EXCEPT !.c = c, !.d = d,
                                                 !.v = tcNow[c]])
    /\ ops' = ops + 1
    /\ UNCHANGED <<shared, history>>

\* TestClock.Add(d): c.Now() of an unset clock returns c.wc().
TcAddWc(r) ==
    /\ At(r, "add_wc")
    /\ \E tau \in Readings :
          /\ realTime' = tau
          /\ Step(r, [r EXCEPT !.pc = "add_set", !.read = tau,
                               !.v = wc(r.c, tau)])
    /\ UNCHANGED <<nowFn, nowFnMu, atomicClock, tcNow, isMock, ops, history>>

\* TestClock.Add(d): ret := n.Add(d); c.Set(ret); return ret.
TcAddSet(r) ==
    /\ At(r, "add_set")
    /\ tcNow' = [tcNow EXCEPT ![r.c] = setTarget(r.c, Add(r.v, r.d))]
    /\ calls' = BagOfAll(Dirtied, calls (-) One(r))
                 (+) One([r EXCEPT !.pc = "done", !.ret = Add(r.v, r.d)])
    /\ UNCHANGED <<nowFn, nowFnMu, atomicClock, isMock, realTime, ops,
                   history>>

Next ==
    \/ \E c \in Clocks : TcMockNow(c)
    \/ \E c \in Clocks : MockNowClock(c)
    \/ \E c \in Clocks : TcUnmockNow(c)
    \/ ResetNow
    \/ \E v \in MockInstants : MockNowFn(v)
    \/ \E v \in MockInstants : MockNow(v)
    \/ \E r \in Calls : allowClock(r)
    \/ \E r \in Calls : allowClockWrite(r)
    \/ \E r \in Calls : setClockLoad(r)
    \/ \E r \in Calls : setClockStore(r)
    \/ \E r \in Calls : setClockNotify(r)
    \/ \E r \in Calls : TcMockNowFlag(r)
    \/ Now
    \/ \E r \in Calls : NowRead(r)
    \/ \E r \in Calls : NowDefault(r)
    \/ \E r \in Calls : nowFnClockGet(r)
    \/ \E r \in Calls : ClockNow(r)
    \/ \E r \in Calls : ClockNowWc(r)
    \/ \E c \in Clocks, u \in SetInstants : TcSet(c, u)
    \/ \E c \in Clocks : TcUnset(c)
    \/ \E c \in Clocks, d \in Durations : TcAdd(c, d)
    \/ \E r \in Calls : TcAddWc(r)
    \/ \E r \in Calls : TcAddSet(r)
    \/ \E r \in Calls : Return(r)

Spec == Init /\ [][Next]_vars

\* ================================================================ claims
NowReturned(r) == r.pc = "done" /\ r.op = "Now"
NoInstallInFlight == \A r \in Calls : ~InInstall(r)

\* What c.Now() returns when the system clock reads tau.
tcNowAt(c, tau) == IF IsUnset(tcNow[c]) THEN wc(c, tau) ELSE tcNow[c]

\* The Now() call r has returned; it started after c.MockNow() had returned,
\* no install call has started since that MockNow started, c is the active
\* clock, and no TestClock was written during the call.
InstalledFor(r, c) ==
    /\ NowReturned(r)
    /\ r.calm
    /\ ActiveClock = TcClock(c)
    /\ ~r.dirty

\* C1: after c.MockNow() has returned and while no other install or
\* uninstall happens, utc.Now() returns what c.Now() returns: the recorded
\* instant when c is set, the reading of c's policy clock when c is unset.
C1_NowIsClockNow ==
    \A r \in Calls, c \in Clocks :
        InstalledFor(r, c) => r.ret = tcNowAt(c, r.read)

\* C1 witness: c was installed, then moved by Add from a reading of its
\* policy clock, and Now() returned the instant Add recorded.
C1_Witness ==
    \E r \in Calls, c \in Clocks, d \in Durations, tau \in T0..LastTime :
        /\ InstalledFor(r, c)
        /\ tcNow[c] = setTarget(c, Add(wc(c, tau), d))
        /\ tcNow[c] \notin {setTarget(c, u) : u \in SetInstants}
        /\ r.ret = tcNow[c]

\* C2: under sequential use of the install calls, c.IsMock() is true if and
\* only if c is the registry's active clock, for every TestClock c.
C2_IsMockIffActive ==
    (~overlapped /\ NoInstallInFlight) =>
        \A c \in Clocks : isMock[c] <=> (ActiveClock = TcClock(c))

\* C2 witness: clock b was installed while clock a was active; a is flagged
\* off although it was never deregistered.
C2_Witness ==
    /\ ~overlapped /\ NoInstallInFlight
    /\ \E r \in Calls, a \in Clocks, b \in Clocks :
          /\ a # b
          /\ r.pc = "done" /\ r.op = "MockNow"
          /\ r.old = TcClock(a)
          /\ ActiveClock = TcClock(b)
          /\ isMock[b] /\ ~isMock[a]

\* C3 (as claimed): setClock is one atomic swap: the capability a call
\* treats as previously active and notifies is the one its store replaced.
C3_AtomicSwap ==
    \A r \in Calls :
        (InInstall(r) /\ r.pc \in {"sc_notify", "mk_flag"}) =>
            r.old = r.replaced

\* C4 (as claimed): once every in-flight call has returned, a TestClock
\* reports IsMock() only if it is the registry's active clock.
C4_OnlyActiveIsMock ==
    (\A r \in Calls : ~Running(r)) =>
        \A c \in Clocks : isMock[c] => ActiveClock = TcClock(c)

\* C5 (as claimed): no write of nowFn is ever concurrent with the
\* unsynchronized read of nowFn in Now().
C5_NoRace == ~Race

\* C5 (amended): nowFn is written at most once, and a read in Now() races
\* only with that first write: nothing was written or stored before it and
\* the one writer holds nowFnMu.
C5_RaceOnlyWithFirstSwitch ==
    /\ nowFnWrites <= 1
    /\ Race => /\ nowFnWrites = 0
               /\ nowFn = "now"
               /\ atomicClock = Nil
               /\ nowFnMu
               /\ Cardinality({w \in Calls : w.pc = "ac_write"}) = 1
               /\ \A w \in Calls :
                      w.pc = "ac_write" => CopiesIn(w, calls) = 1

\* C5 witness: the first install is about to write nowFn while a reader is
\* about to read it.
C5_Witness == Race /\ nowFnWrites = 0

\* C6: once an install or ResetNow has completed, no later install writes
\* nowFn, so no reader races with an install.
C6_NoWriteAfterFirstInstall == installsDone => (~WritePending /\ ~Race)

\* C6 witness: after a completed install a later install has passed the
\* comparison of allowClock without writing, while a reader reads nowFn.
C6_Witness ==
    /\ installsDone
    /\ nowFnWrites = 1
    /\ \E w \in Calls, r \in Calls : w.pc = "sc_load" /\ r.pc = "now_read"

\* C7: Now() returns the reading of a capability that was the active clock
\* at some point of the call, and a call that starts after an install has
\* returned goes through the registry, so that what it observes is that
\* install's clock or a later one.
C7_ReadsOldOrNew ==
    \A r \in Calls :
        NowReturned(r) =>
            /\ r.clk \in r.seen
            /\ r.afterInstall => r.fn = "nowFnClock"

\* C7 witness: a Now() call overlapped the install replacing one clock by
\* another and returned a TestClock's reading.
C7_Witness ==
    \E r \in Calls :
        /\ NowReturned(r)
        /\ Cardinality(r.seen) >= 2
        /\ r.clk.kind = "tc"
        /\ r.afterInstall

\* C8: in the step that turns a TestClock's IsMock flag off, the notifying
\* call has already stored its own clock: the registry holds a clocker and
\* the accessor is on the synchronized path, so a Now() call starting in
\* any state where the flag is off resolves through the registry to that
\* store or a later one.
C8_NotifyAfterStore ==
    [][ \A a \in Clocks :
            (isMock[a] /\ ~isMock'[a]) =>
                \E r \in Calls :
                    /\ CopiesIn(r, calls') < CopiesIn(r, calls)
                    /\ r.old = TcClock(a)
                    /\ r.stored
                    /\ atomicClock # Nil
                    /\ nowFn = "nowFnClock" ]_vars

\* C8 witness: clock b superseded clock a; a is notified and b is active.
C8_Witness ==
    \E r \in Calls, a \in Clocks, b \in Clocks :
        /\ a # b
        /\ r.pc = "mk_flag"
        /\ r.old = TcClock(a) /\ r.cap = TcClock(b)
        /\ ~isMock[a]
        /\ ActiveClock = TcClock(b)

\* The steps of a Now() call.
ReaderStep(r) ==
    \/ NowRead(r)
    \/ NowDefault(r)
    \/ nowFnClockGet(r)
    \/ ClockNow(r)
    \/ ClockNowWc(r)

\* C9: nowFnMu is held by an install call in allowClock only, and the next
\* step of a call inside Now() is enabled wherever the other running calls
\* stand, also while one holds nowFnMu.
C9_ReadersNeverBlock ==
    /\ nowFnMu => \E w \in Calls : InInstall(w) /\ w.pc = "ac_write"
    /\ \A r \in Calls :
          InNow(r) => (r.pc # "ac_write" /\ (NoneDone => ENABLED ReaderStep(r)))

\* C9 witness: a reader is about to read nowFn while an installer holds
\* nowFnMu.
C9_Witness ==
    /\ nowFnMu
    /\ \E r \in Calls, w \in Calls : r.pc = "now_read" /\ w.pc = "ac_write"

\* A setClock call is past allowClock, or has been.
PastAllowClock ==
    \/ installsDone
    \/ atomicClock # Nil
    \/ \E r \in Calls : r.pc \in {"sc_load", "sc_store", "sc_notify", "mk_flag"}

\* C10: once a setClock call is past allowClock, nowFn is nowFnClock in
\* every later state.
C10_StaysSynchronized == PastAllowClock => nowFn = "nowFnClock"

\* C10 witness: a TestClock was installed and then uninstalled: the default
\* clock sits in the atomic slot and nowFn is still nowFnClock.
C10_Witness ==
    /\ NoInstallInFlight
    /\ atomicClock = DefaultClock
    /\ \E r \in Calls :
          r.pc = "done" /\ r.op = "ResetNow" /\ r.old.kind = "tc"
    /\ nowFn = "nowFnClock"

\* ------------------------------------------------------------------- C11
\* A call of ResetNow(), of c.UnmockNow() or of a restore function has
\* returned, and no install call ran beside it.
ResetReturned(r) == r.pc = "done" /\ r.op = "ResetNow" /\ r.solo

\* C11: after ResetNow(), c.UnmockNow() for any TestClock c, or the restore
\* function of MockNow / MockNowFn has returned, the registry's active clock
\* is the default system clock and c.IsMock() is false, whichever clock c
\* is: the active one, a superseded one or one never installed.
C11_ResetRestoresDefault ==
    \A r \in Calls :
        ResetReturned(r) =>
            /\ ActiveClock = DefaultClock
            /\ \A c \in Clocks : ~isMock[c]

\* ------------------------------------------------------------------- C12
\* The registry with constant-function mocks of every instant of FnInstants,
\* Zero among them, and no call of Set or Add.
NextFn ==
    \/ \E c \in Clocks : TcMockNow(c)
    \/ ResetNow
    \/ \E v \in FnInstants : MockNowFn(v)
    \/ \E v \in FnInstants : MockNow(v)
    \/ \E r \in Calls : allowClock(r)
    \/ \E r \in Calls : allowClockWrite(r)
    \/ \E r \in Calls : setClockLoad(r)
    \/ \E r \in Calls : setClockStore(r)
    \/ \E r \in Calls : setClockNotify(r)
    \/ \E r \in Calls : TcMockNowFlag(r)
    \/ Now
    \/ \E r \in Calls : NowRead(r)
    \/ \E r \in Calls : NowDefault(r)
    \/ \E r \in Calls : nowFnClockGet(r)
    \/ \E r \in Calls : ClockNow(r)
    \/ \E r \in Calls : ClockNowWc(r)
    \/ \E r \in Calls : Return(r)

SpecFn == Init /\ [][NextFn]_vars

\* A call of MockNow(v) or MockNowFn has returned, and no install call ran
\* beside it.
MockFnReturned(r) == r.pc = "done" /\ r.op = "MockNowFn" /\ r.solo

\* C12: once MockNow(t) has returned the constant function of t is the
\* active clock and Now() goes through the registry; a Now() call during
\* which that mock is the only clock ever active returns exactly t, for
\* every t, Zero included.
C12_MockNowReturnsInstant ==
    /\ \A r \in Calls :
          MockFnReturned(r) =>
              (ActiveClock = r.cap /\ nowFn = "nowFnClock")
    /\ \A r \in Calls, v \in FnInstants :
          (NowReturned(r) /\ r.seen = {FnClock(v)}) => r.ret = v

\* A Now() call that began after MockNow(Zero) had returned has returned
\* Zero.
C12_Witness ==
    \E r \in Calls :
        /\ NowReturned(r)
        /\ r.seen = {FnClock(Zero)}
        /\ r.ret = Zero
        /\ r.afterInstall
        /\ ~overlapped

\* ------------------------------------------- TestClock and Chrono, alone
\* The clocks of one goroutine, apart from the registry: one clock of each
\* policy.  A Chrono (NewChrono, NewWatchMs, NewWatch) has the code of the
\* TestClock of the same policy (NewMonoClock, NewWallClockMs, NewWallClock),
\* without the isMock flag.
NPolicies == 3
Policies == 1..NPolicies

\* Instants handed to the constructors and to Set: Zero, an instant one tick
\* after the zero time, and a reading of the monotonic clock that is not a
\* whole millisecond.  Durations for Add are shorter than the time from the
\* zero time to the present, of either sign.
E1 == New(TimeOf(1, FALSE))
ClockInstants  == {Zero, E1, U2}
ClockDurations == {-1, 1}

\* newTestClock(mono, ms, u...) and newChrono: the clock is unset, then
\* Set(u[0]) when an instant is given.  The three clocks are constructed
\* with the same arguments.
InitClock ==
    /\ nowFn = "now"
    /\ nowFnMu = FALSE
    /\ atomicClock = Nil
    /\ \E u \in ClockInstants \cup {NoVal} :
          tcNow = [c \in Policies |->
                      IF u = NoVal THEN NoVal ELSE setTarget(c, u)]
    /\ isMock = [c \in Clocks |-> FALSE]
    /\ realTime = T0
    /\ calls = EmptyBag
    /\ ops = 0
    /\ nowFnWrites = 0
    /\ installsDone = FALSE
    /\ overlapped = FALSE
    /\ quiet = FALSE

\* The goroutine has no call in progress.
Alone == calls = EmptyBag

\* Slip: Get() of an unset clock reads the policy clock, as Now() does.
TcGetPassthrough(c) ==
    /\ CanStart
    /\ IF IsUnset(tcNow[c])
       THEN \E tau \in Readings :
               /\ realTime' = tau
               /\ calls' = calls (+) One([NewCall("Get", "done")
                                             EXCEPT !.c = c, !.read = tau,
                                                    !.ret = wc(c, tau)])
       ELSE /\ calls' = calls (+) One([NewCall("Get", "done")
                                          EXCEPT !.c = c, !.ret = tcNow[c]])
            /\ UNCHANGED realTime
    /\ ops' = ops + 1
    /\ UNCHANGED <<nowFn, nowFnMu, atomicClock, tcNow, isMock, history>>

\* TestClock.Get(), Chrono.Get(): Zero for nil, else the instant pointed to.
TcGet(c) ==
    /\ CanStart
    /\ calls' = calls (+) One([NewCall("Get", "done")
                                  EXCEPT !.c = c, !.ret = Deref(tcNow[c])])
    /\ ops' = ops + 1
    /\ UNCHANGED <<shared, history>>

\* Slip: Now() of a clock reads its policy clock whatever is recorded.
TcNowPassthrough(c) ==
    /\ CanStart
    /\ calls' = calls (+) One([NewCall("TcNow", "now_wc")
                                  EXCEPT !.c = c, !.clk = TcClock(c)])
    /\ ops' = ops + 1
    /\ UNCHANGED <<shared, history>>

\* TestClock.Now(), Chrono.Now() called on the clock itself: the load of
\* c.now, returned unless nil or Zero; c.wc() is the step ClockNowWc.
TcNow(c) ==
    /\ CanStart
    /\ calls' = calls (+) One(
          IF IsUnset(tcNow[c])
          THEN [NewCall("TcNow", "now_wc") EXCEPT !.c = c, !.clk = TcClock(c)]
          ELSE [NewCall("TcNow", "done") EXCEPT !.c = c, !.clk = TcClock(c),
                                                !.ret = tcNow[c]])
    /\ ops' = ops + 1
    /\ UNCHANGED <<shared, history>>

\* Slip: SetNow() records a reading of the system clock as it is, without
\* the policy of the clock.
TcSetNowRaw(c) ==
    /\ CanStart
    /\ \E tau \in Readings :
          /\ realTime' = tau
          /\ tcNow' = [tcNow EXCEPT ![c] = now(tau)]
          /\ calls' = BagOfAll(Dirtied, calls)
                       (+) One([NewCall("SetNow", "done")
                                   EXCEPT !.c = c, !.v = now(tau),
                                          !.read = tau,
                                          !.ret = Deref(tcNow[c])])
    /\ ops' = ops + 1
    /\ UNCHANGED <<nowFn, nowFnMu, atomicClock, isMock, history>>

\* TestClock.SetNow(), Chrono.SetNow(): c.Set(c.wc()).
TcSetNow(c) ==
    /\ CanStart
    /\ \E tau \in Readings :
          /\ realTime' = tau
          /\ tcNow' = [tcNow EXCEPT ![c] = setTarget(c, wc(c, tau))]
          /\ calls' = BagOfAll(Dirtied, calls)
                       (+) One([NewCall("SetNow", "done")
                                   EXCEPT !.c = c, !.v = wc(c, tau),
                                          !.read = tau,
                                          !.ret = Deref(tcNow[c])])
    /\ ops' = ops + 1
    /\ UNCHANGED <<nowFn, nowFnMu, atomicClock, isMock, history>>

\* The calls one goroutine makes on the clocks, one after the other.
NextClock ==
    \/ \E c \in Policies, u \in ClockInstants : Alone /\ TcSet(c, u)
    \/ \E c \in Policies : Alone /\ TcUnset(c)
    \/ \E c \in Policies : Alone /\ TcGet(c)
    \/ \E c \in Policies : Alone /\ TcNow(c)
    \/ \E c \in Policies : Alone /\ TcSetNow(c)
    \/ \E c \in Policies, d \in ClockDurations : Alone /\ TcAdd(c, d)
    \/ \E r \in Calls : ClockNowWc(r)
    \/ \E r \in Calls : TcAddWc(r)
    \/ \E r \in Calls : TcAddSet(r)
    \/ \E r \in Calls : Return(r)

SpecClock == InitClock /\ [][NextClock]_vars

\* ------------------------------------------------------------------- C13
\* A call of op on a clock has returned.
Returned(r, op) == r.pc = "done" /\ r.op = op

\* C13: Now() of a TestClock or Chrono that is set returns the recorded
\* instant, without reading the system clock, however much real time has
\* passed; Now() of one that is unset returns the current reading of the
\* policy clock of the clock.
C13_NowFrozenOrTracking ==
    \A r \in Calls :
        Returned(r, "TcNow") =>
            IF IsUnset(tcNow[r.c])
            THEN r.read = realTime /\ r.ret = wc(r.c, realTime)
            ELSE r.read = 0 /\ r.ret = tcNow[r.c]

\* Now() has returned the instant a set clock recorded from the system
\* clock, after the system clock has advanced past it.
C13_Witness ==
    \E r \in Calls :
        /\ Returned(r, "TcNow")
        /\ ~IsUnset(tcNow[r.c])
        /\ r.ret = tcNow[r.c]
        /\ r.ret.Time >= T0
        /\ r.ret.Time < realTime

\* ------------------------------------------------------------------- C14
\* C14: Set(v) returns the instant recorded immediately before the call,
\* Zero if the clock was unset; Set(Zero) and Unset() leave the clock with
\* the nil pointer of a clock constructed with no instant or with Zero, for
\* which Get() returns Zero and Now() goes to the policy clock.
C14_SetReturnsPrevious ==
    [][\A r \in BagToSet(calls') :
          (Alone /\ Returned(r, "Set")) =>
              /\ r.ret = (IF tcNow[r.c] = NoVal THEN Zero ELSE tcNow[r.c])
              /\ r.v = Zero =>
                    /\ tcNow'[r.c] = NoVal
                    /\ tcNow'[r.c] = setTarget(r.c, Zero)
                    /\ Deref(tcNow'[r.c]) = Zero
                    /\ IsUnset(tcNow'[r.c])]_vars

\* Set(Zero) or Unset() has returned the instant a set clock had recorded,
\* and the clock is unset.
C14_Witness ==
    \E r \in Calls :
        /\ Returned(r, "Set")
        /\ r.v = Zero
        /\ r.ret # Zero
        /\ tcNow[r.c] = NoVal

\* ------------------------------------------------------------------- C15
\* C15: Get() of a TestClock or Chrono returns the recorded instant when the
\* clock is set and Zero when it is unset, and takes no reading of the
\* system clock.
C15_GetRecordedOrZero ==
    \A r \in Calls :
        Returned(r, "Get") =>
            /\ r.read = 0
            /\ r.ret = (IF IsUnset(tcNow[r.c]) THEN Zero ELSE tcNow[r.c])

\* Get() has returned Zero for an unset clock after the system clock was
\* read, while another clock holds a recorded instant.
C15_Witness ==
    \E r \in Calls :
        /\ Returned(r, "Get")
        /\ IsUnset(tcNow[r.c])
        /\ r.ret = Zero
        /\ realTime > T0
        /\ \E c \in Policies : ~IsUnset(tcNow[c])

\* ------------------------------------------------------------------- C16
\* C16: for every policy, prior state and duration d, the value Add(d) has
\* returned is the value Now() returns afterwards, whenever it is called,
\* and is the Now() reading Add took before the addition plus d.
C16_AddReturnsNewNow ==
    \A r \in Calls :
        Returned(r, "Add") =>
            /\ r.ret = Add(r.v, r.d)
            /\ \A tau \in Readings : tcNowAt(r.c, tau) = r.ret

\* ------------------------------------------------------------------- C17
\* C17: after Add(d) the clock is set, whatever its state before and
\* whatever d: Get() is not Zero and Now() does not go to the policy clock.
C17_AddPins ==
    \A r \in Calls :
        Returned(r, "Add") =>
            /\ Deref(tcNow[r.c]) # Zero
            /\ ~IsUnset(tcNow[r.c])

\* ------------------------------------------------------------------- C18
\* The clocks of NewMonoClock, NewWallClockMs and NewWallClock.
MonoClock   == 1
WallClockMs == 2
WallClock   == 3

\* What Get() returns.
Recorded(c) == Deref(tcNow[c])

\* C18: Set(u) for u other than Zero, and a constructor given u, record u
\* as it is on a mono clock, StripMono(u) on a wall clock and that rounded
\* to the millisecond on a wall-millisecond clock; so, for clocks
\* constructed with the same instant, wall.Get() = mono.Get().StripMono()
\* and wallMs.Get() = wall.Get().Round(1ms).
C18_RecordedAfterPolicy ==
    /\ \A r \in Calls :
          (Returned(r, "Set") /\ r.v # Zero) =>
              /\ r.c = MonoClock => Recorded(r.c) = r.v
              /\ r.c = WallClock => Recorded(r.c) = StripMono(r.v)
              /\ r.c = WallClockMs =>
                    Recorded(r.c) = Round(StripMono(r.v), TicksPerMs)
    /\ ops = 0 =>
          /\ Recorded(WallClock) = StripMono(Recorded(MonoClock))
          /\ Recorded(WallClockMs) = Round(Recorded(WallClock), TicksPerMs)

\* Set(u) of an instant with a monotonic reading that is not a whole
\* millisecond has returned on the wall clock, which records it stripped,
\* after it was rounded on the millisecond clock.
C18_Witness ==
    \E r \in Calls :
        /\ Returned(r, "Set")
        /\ r.c = WallClock
        /\ r.v = U2
        /\ tcNow[WallClock] = StripMono(U2)
        /\ tcNow[WallClock] # U2
        /\ tcNow[WallClockMs] = Round(StripMono(U2), TicksPerMs)
        /\ tcNow[WallClockMs] # tcNow[WallClock]

\* ------------------------------------------------------------------- C19
\* C19: SetNow() is Set of the present reading of the policy clock: it
\* returns the instant recorded before the call, Zero if the clock was
\* unset, and leaves the clock set to the reading of the moment of the
\* call, which every later Now() returns.
C19_SetNowFreezes ==
    [][\A r \in BagToSet(calls') :
          (Alone /\ Returned(r, "SetNow")) =>
              /\ r.ret = (IF tcNow[r.c] = NoVal THEN Zero ELSE tcNow[r.c])
              /\ r.read = realTime'
              /\ r.read >= realTime
              /\ tcNow'[r.c] = setTarget(r.c, wc(r.c, r.read))
              /\ ~IsUnset(tcNow'[r.c])
              /\ \A tau \in r.read..LastTime :
                    (IF IsUnset(tcNow'[r.c]) THEN wc(r.c, tau)
                     ELSE tcNow'[r.c]) = wc(r.c, r.read)]_vars

\* SetNow() has returned the instant a set clock held before, and left the
\* clock at a later reading of the system clock.
C19_Witness ==
    \E r \in Calls :
        /\ Returned(r, "SetNow")
        /\ r.ret # Zero
        /\ r.read > T0
        /\ tcNow[r.c] = wc(r.c, r.read)
        /\ tcNow[r.c] # r.ret

\* ------------------------------------------------------------------- C20
\* The calls one goroutine makes on the registry and on the TestClocks, one
\* after the other.
NextFrame ==
    \/ \E c \in Clocks : Alone /\ TcMockNow(c)
    \/ \E c \in Clocks : Alone /\ TcUnmockNow(c)
    \/ Alone /\ ResetNow
    \/ \E r \in Calls : allowClock(r)
    \/ \E r \in Calls : allowClockWrite(r)
    \/ \E r \in Calls : setClockLoad(r)
    \/ \E r \in Calls : setClockStore(r)
    \/ \E r \in Calls : setClockNotify(r)
    \/ \E r \in Calls : TcMockNowFlag(r)
    \/ Alone /\ Now
    \/ \E r \in Calls : NowRead(r)
    \/ \E r \in Calls : NowDefault(r)
    \/ \E r \in Calls : nowFnClockGet(r)
    \/ \E r \in Calls : ClockNow(r)
    \/ \E r \in Calls : ClockNowWc(r)
    \/ \E c \in Clocks, u \in SetInstants : Alone /\ TcSet(c, u)
    \/ \E c \in Clocks : Alone /\ TcUnset(c)
    \/ \E c \in Clocks : Alone /\ TcGet(c)
    \/ \E c \in Clocks : Alone /\ TcNow(c)
    \/ \E c \in Clocks : Alone /\ TcSetNow(c)
    \/ \E c \in Clocks, d \in Durations : Alone /\ TcAdd(c, d)
    \/ \E r \in Calls : TcAddWc(r)
    \/ \E r \in Calls : TcAddSet(r)
    \/ \E r \in Calls : Return(r)

SpecFrame == Init /\ [][NextFrame]_vars

\* The calls that read or write the instant of a clock.
ClockOps == {"Set", "Add", "SetNow", "Get", "TcNow", "Now"}

\* C20: no step of Set, Unset, Add, SetNow, Get or Now changes the IsMock
\* flag of any clock or the active clock of the registry, and no step of
\* MockNow, UnmockNow or ResetNow changes the recorded instant of any clock.
C20_DisjointHalves ==
    [][\A r \in BagToSet(calls') :
          /\ r.op \in ClockOps =>
                (isMock' = isMock /\ atomicClock' = atomicClock)
          /\ r.op \in InstallOps => tcNow' = tcNow]_vars

\* ResetNow() has replaced a TestClock that was set while it was installed:
\* the clock is no longer flagged and keeps its recorded instant.
C20_Witness ==
    \E r \in Calls, c \in Clocks :
        /\ Returned(r, "ResetNow")
        /\ r.replaced = TcClock(c)
        /\ ~isMock[c]
        /\ ~IsUnset(tcNow[c])

\* ================================================================ Chrono
\* A Chrono of each policy, beside the TestClocks.  The pointer Chrono.u of
\* Chrono k is kept in tcNow[k]; the Chrono of policy p is ChronoOf(p).
ChBase == NClocks + NPolicies
ChronoOf(p) == ChBase + p
Chronos == {ChronoOf(p) : p \in Policies}

\* The fields mono and ms that NewChrono, NewWatchMs and NewWatch set.
ChMono(k) == k - ChBase = MonoClock
ChMs(k)   == k - ChBase = WallClockMs

\* Slip: the policy clocks of a Chrono read utc.Now(), the clock of the
\* registry, where they should read now().
ChWcViaRegistry(k, tau) ==
    LET n == IF nowFn = "now" \/ ActiveClock.kind = "default" THEN now(tau)
             ELSE IF ActiveClock.kind = "fn" THEN ActiveClock.v
             ELSE tcNowAt(ActiveClock.c, tau)
    IN  IF ~ChMono(k)
        THEN IF ChMs(k) THEN Round(StripMono(n), TicksPerMs) ELSE StripMono(n)
        ELSE n

\* Chrono.wc(): WallClockMs.Now(), WallClock.Now() or Mono.Now().
ChWc(k, tau) ==
    IF ~ChMono(k)
    THEN IF ChMs(k) THEN WallClockNow(TRUE, tau) ELSE WallClockNow(FALSE, tau)
    ELSE MonoNow(tau)

\* Slip: Chrono.Set rounds for a Chrono of any policy with ms set, and
\* strips for none.
ChSetPtrNoStrip(k, u) ==
    IF u = NoVal \/ u = Zero THEN NoVal
    ELSE IF ChMs(k) THEN Round(u, TicksPerMs) ELSE u

\* The pointer Chrono.Set(u...) swaps in: nil for no argument (NoVal) and for
\* Zero, else u[0] after the policy.
ChSetPtr(k, u) ==
    IF u = NoVal THEN NoVal
    ELSE IF u = Zero THEN NoVal
    ELSE IF ~ChMono(k)
         THEN IF ChMs(k) THEN Round(StripMono(u), TicksPerMs)
              ELSE StripMono(u)
         ELSE u

\* Chrono.Get(), and the result of Swap through the nil check.
ChGetVal(n) == IF n = NoVal THEN Zero ELSE n

\* Chrono.Now() loads n: the policy clock for nil or Zero.
ChReads(n) == n = NoVal \/ n = Zero
ChNowVal(k, n, tau) == IF ChReads(n) THEN ChWc(k, tau) ELSE n

\* The reading a call leaves as the last reading of the system clock.
ReadingAfter(reads, tau) == IF reads THEN tau ELSE realTime

\* The record of a call that has returned.
Done(op, c, v, d, read, ret) ==
    [NewCall(op, "done") EXCEPT !.c = c, !.v = v, !.d = d, !.read = read,
                                !.ret = ret]

\* One call made on the TestClock of policy p and on the Chrono of the same
\* policy, with the same arguments and the same readings of the system
\* clock.  Each leaves the record of its call.
PairStep(p, k, tcPtr, chPtr, tcRec, chRec, tau, reads) ==
    /\ CanStart
    /\ Alone
    /\ tcNow' = [tcNow EXCEPT ![p] = tcPtr, ![k] = chPtr]
    /\ realTime' = ReadingAfter(reads, tau)
    /\ calls' = One(tcRec) (+) One(chRec)
    /\ ops' = ops + 1
    /\ UNCHANGED <<nowFn, nowFnMu, atomicClock, isMock, history>>

\* TestClock.Set(u) and Chrono.Set(u).
PairSet(p, u) ==
    LET k == ChronoOf(p)
    IN  PairStep(p, k, setTarget(p, u), ChSetPtr(k, u),
                 Done("Set", p, u, 0, 0, Deref(tcNow[p])),
                 Done("ChSet", k, u, 0, 0, ChGetVal(tcNow[k])),
                 realTime, FALSE)

\* TestClock.Unset() and Chrono.Wall(): Set(Zero).
PairUnset(p) == PairSet(p, Zero)

\* TestClock.Unset() and Chrono.Set() with no argument.
PairSetNone(p) ==
    LET k == ChronoOf(p)
    IN  PairStep(p, k, setTarget(p, Zero), ChSetPtr(k, NoVal),
                 Done("Set", p, Zero, 0, 0, Deref(tcNow[p])),
                 Done("ChSet", k, Zero, 0, 0, ChGetVal(tcNow[k])),
                 realTime, FALSE)

\* TestClock.Get() and Chrono.Get().
PairGet(p) ==
    LET k == ChronoOf(p)
    IN  PairStep(p, k, tcNow[p], tcNow[k],
                 Done("Get", p, NoVal, 0, 0, Deref(tcNow[p])),
                 Done("ChGet", k, NoVal, 0, 0, ChGetVal(tcNow[k])),
                 realTime, FALSE)

\* TestClock.Now() and Chrono.Now().
PairNow(p) ==
    LET k == ChronoOf(p)
        tcReads == IsUnset(tcNow[p])
        chReads == ChReads(tcNow[k])
    IN  \E tau \in Readings :
           PairStep(p, k, tcNow[p], tcNow[k],
                    Done("TcNow", p, NoVal, 0, IF tcReads THEN tau ELSE 0,
                         tcNowAt(p, tau)),
                    Done("ChNow", k, NoVal, 0, IF chReads THEN tau ELSE 0,
                         ChNowVal(k, tcNow[k], tau)),
                    tau, tcReads \/ chReads)

\* TestClock.Add(d) and Chrono.Add(d): n := Now(); ret := n.Add(d); Set(ret).
PairAdd(p, d) ==
    LET k == ChronoOf(p)
        tcReads == IsUnset(tcNow[p])
        chReads == ChReads(tcNow[k])
    IN  \E tau \in Readings :
           LET tcRet == Add(tcNowAt(p, tau), d)
               chRet == Add(ChNowVal(k, tcNow[k], tau), d)
           IN  PairStep(p, k, setTarget(p, tcRet), ChSetPtr(k, chRet),
                        Done("Add", p, tcNowAt(p, tau), d,
                             IF tcReads THEN tau ELSE 0, tcRet),
                        Done("ChAdd", k, ChNowVal(k, tcNow[k], tau), d,
                             IF chReads THEN tau ELSE 0, chRet),
                        tau, tcReads \/ chReads)

\* TestClock.SetNow() and Chrono.SetNow(): Set(wc()).
PairSetNow(p) ==
    LET k == ChronoOf(p)
    IN  \E tau \in Readings :
           PairStep(p, k, setTarget(p, wc(p, tau)), ChSetPtr(k, ChWc(k, tau)),
                    Done("SetNow", p, wc(p, tau), 0, tau, Deref(tcNow[p])),
                    Done("ChSetNow", k, ChWc(k, tau), 0, tau,
                         ChGetVal(tcNow[k])),
                    tau, TRUE)

\* newTestClock and newChrono with the same arguments, for each policy.
InitPair ==
    /\ nowFn = "now"
    /\ nowFnMu = FALSE
    /\ atomicClock = Nil
    /\ \E u \in ClockInstants \cup {NoVal} :
          tcNow = [c \in Policies \cup Chronos |->
                      IF c \in Policies
                      THEN IF u = NoVal THEN NoVal ELSE setTarget(c, u)
                      ELSE ChSetPtr(c, u)]
    /\ isMock = [c \in Clocks |-> FALSE]
    /\ realTime = T0
    /\ calls = EmptyBag
    /\ ops = 0
    /\ nowFnWrites = 0
    /\ installsDone = FALSE
    /\ overlapped = FALSE
    /\ quiet = FALSE

NextPair ==
    \/ \E p \in Policies, u \in ClockInstants : PairSet(p, u)
    \/ \E p \in Policies : PairUnset(p)
    \/ \E p \in Policies : PairSetNone(p)
    \/ \E p \in Policies : PairGet(p)
    \/ \E p \in Policies : PairNow(p)
    \/ \E p \in Policies, d \in ClockDurations : PairAdd(p, d)
    \/ \E p \in Policies : PairSetNow(p)
    \/ \E r \in Calls : Return(r)

SpecPair == InitPair /\ [][NextPair]_vars

\* ------------------------------------------------------------------- C21
\* C21: for the same policy and the same initial instant, under the same
\* calls of Set, Unset / Wall, Add, SetNow, Get and Now with the same
\* readings of the system clock, a Chrono holds what the TestClock holds,
\* is set when and only when the TestClock is, and has returned what the
\* TestClock has returned.
C21_ChronoIsTestClock ==
    /\ \A p \in Policies :
          /\ tcNow[ChronoOf(p)] = tcNow[p]
          /\ ChReads(tcNow[ChronoOf(p)]) = IsUnset(tcNow[p])
    /\ \A r \in Calls, s \in Calls :
          (r.c \in Policies /\ s.c = ChronoOf(r.c)) =>
              (s.ret = r.ret /\ s.read = r.read)

\* Add has returned on a millisecond TestClock and on the Chrono of
\* NewWatchMs, both set, after both took a reading of the system clock.
C21_Witness ==
    \E r \in Calls, s \in Calls :
        /\ r.op = "Add" /\ r.c = WallClockMs
        /\ s.op = "ChAdd" /\ s.c = ChronoOf(WallClockMs)
        /\ r.read > 0
        /\ s.ret = r.ret
        /\ ~ChReads(tcNow[s.c])
        /\ tcNow[s.c] = tcNow[r.c]

\* --------------------------------------------- Chrono beside the registry
\* One call on Chrono k: it swaps ptr in, leaves the record rec, and takes
\* the reading tau of the system clock when reads.
ChCall(k, ptr, rec, tau, reads) ==
    /\ CanStart
    /\ Alone
    /\ tcNow' = [tcNow EXCEPT ![k] = ptr]
    /\ realTime' = ReadingAfter(reads, tau)
    /\ calls' = One(rec)
    /\ ops' = ops + 1
    /\ UNCHANGED <<nowFn, nowFnMu, atomicClock, isMock, history>>

\* Chrono.Set(u).
ChSet(k, u) ==
    ChCall(k, ChSetPtr(k, u),
           Done("ChSet", k, u, 0, 0, ChGetVal(tcNow[k])), realTime, FALSE)

\* Chrono.Wall(): Set(Zero).
ChWall(k) == ChSet(k, Zero)

\* Chrono.Get().
ChGet(k) ==
    ChCall(k, tcNow[k],
           Done("ChGet", k, NoVal, 0, 0, ChGetVal(tcNow[k])), realTime, FALSE)

\* Chrono.Now().
ChNow(k) ==
    \E tau \in Readings :
       ChCall(k, tcNow[k],
              Done("ChNow", k, NoVal, 0,
                   IF ChReads(tcNow[k]) THEN tau ELSE 0,
                   ChNowVal(k, tcNow[k], tau)),
              tau, ChReads(tcNow[k]))

\* Chrono.Add(d).
ChAdd(k, d) ==
    \E tau \in Readings :
       LET n == ChNowVal(k, tcNow[k], tau)
       IN  ChCall(k, ChSetPtr(k, Add(n, d)),
                  Done("ChAdd", k, n, d,
                       IF ChReads(tcNow[k]) THEN tau ELSE 0, Add(n, d)),
                  tau, ChReads(tcNow[k]))

\* Chrono.SetNow().
ChSetNow(k) ==
    \E tau \in Readings :
       ChCall(k, ChSetPtr(k, ChWc(k, tau)),
              Done("ChSetNow", k, ChWc(k, tau), 0, tau, ChGetVal(tcNow[k])),
              tau, TRUE)

\* The registry in its initial state, the TestClocks and the Chronos unset.
InitChrono ==
    /\ nowFn = "now"
    /\ nowFnMu = FALSE
    /\ atomicClock = Nil
    /\ tcNow = [c \in Clocks \cup Chronos |-> NoVal]
    /\ isMock = [c \in Clocks |-> FALSE]
    /\ realTime = T0
    /\ calls = EmptyBag
    /\ ops = 0
    /\ nowFnWrites = 0
    /\ installsDone = FALSE
    /\ overlapped = FALSE
    /\ quiet = FALSE

\* The calls one goroutine makes on the registry, on the TestClocks it
\* installs and on the Chronos.
NextChrono ==
    \/ \E c \in Clocks : Alone /\ TcMockNow(c)
    \/ \E v \in MockInstants : Alone /\ MockNow(v)
    \/ Alone /\ ResetNow
    \/ \E r \in Calls : allowClock(r)
    \/ \E r \in Calls : allowClockWrite(r)
    \/ \E r \in Calls : setClockLoad(r)
    \/ \E r \in Calls : setClockStore(r)
    \/ \E r \in Calls : setClockNotify(r)
    \/ \E r \in Calls : TcMockNowFlag(r)
    \/ \E c \in Clocks, u \in SetInstants : Alone /\ TcSet(c, u)
    \/ \E k \in Chronos, u \in SetInstants : ChSet(k, u)
    \/ \E k \in Chronos : ChWall(k)
    \/ \E k \in Chronos : ChGet(k)
    \/ \E k \in Chronos : ChNow(k)
    \/ \E k \in Chronos, d \in Durations : ChAdd(k, d)
    \/ \E k \in Chronos : ChSetNow(k)
    \/ \E r \in Calls : Return(r)

SpecChrono == InitChrono /\ [][NextChrono]_vars

\* ------------------------------------------------------------------- C22
\* The registry: everything a Chrono must neither read nor write.
registry == <<nowFn, nowFnMu, atomicClock, isMock>>

\* What a call on Chrono k returns, as a function of what the Chrono held
\* (n), the arguments of the call and the reading tau of the system clock,
\* whatever the registry holds.
SystemReading(k, tau) ==
    IF k = ChronoOf(MonoClock) THEN New(TimeOf(tau, TRUE))
    ELSE IF k = ChronoOf(WallClock) THEN New(TimeOf(tau, FALSE))
    ELSE New(TimeRound(TimeOf(tau, FALSE), TicksPerMs))

ShownByNow(k, n, tau) ==
    IF n = NoVal \/ n = Zero THEN SystemReading(k, tau) ELSE n

ChronoResult(s, n, tau) ==
    IF s.op = "ChNow" THEN ShownByNow(s.c, n, tau)
    ELSE IF s.op = "ChAdd" THEN Add(ShownByNow(s.c, n, tau), s.d)
    ELSE IF n = NoVal THEN Zero ELSE n

\* C22: a Chrono is independent of the registry.  Whatever the registry
\* holds (the default, a function mock, a TestClock set or unset), a call on
\* a Chrono returns the same function of the Chrono, its arguments and the
\* system clock, its passthrough being the reading of the system clock and
\* not utc.Now(); and no call on a Chrono changes the registry or a
\* TestClock.
C22_ChronoIndependent ==
    [][\A s \in BagToSet(calls') :
          (Alone /\ s.c \in Chronos) =>
              /\ registry' = registry
              /\ \A c \in Clocks : tcNow'[c] = tcNow[c]
              /\ s.ret = ChronoResult(s, tcNow[s.c], realTime')
              /\ s.read # 0 => s.read = realTime']_vars

\* Now() of an unset Chrono has returned the reading of the system clock
\* while utc.Now() is mocked with another instant.
C22_Witness ==
    \E s \in Calls, v \in MockInstants :
        /\ Returned(s, "ChNow")
        /\ ActiveClock = FnClock(v)
        /\ nowFn = "nowFnClock"
        /\ s.read = realTime
        /\ s.ret = ChWc(s.c, realTime)
        /\ s.ret.Time # v.Time

\* ==================================================== the marshalled forms
\* The calendar, scaled: an instant is counted in ticks (nanoseconds) since
\* the zero time, the first instant of year 1.  A year stands for the date
\* and the time of day down to the second.
MsPerSec   == 2    \* milliseconds in a second
SecPerYear == 2    \* seconds in a year
EpochYear  == 2    \* the year of the Unix epoch
MaxYear    == 3    \* the last year of four digits
ByteBase   == 2    \* values of a byte

TicksPerSec  == MsPerSec * TicksPerMs
TicksPerYear == SecPerYear * TicksPerSec
\* The Unix epoch, counted from the zero time.
UnixEpoch    == (EpochYear - 1) * TicksPerYear

\* uint64 and int64: a word of WordBytes bytes, and the conversions into it.
WordBytes == 8
Uint64(x) == x % (ByteBase ^ WordBytes)
Int64(x)  ==
    LET half == (ByteBase ^ WordBytes) \div 2
    IN  ((x + half) % (ByteBase ^ WordBytes)) - half

\* time.Time accessors of the embedded Time.
IsZero(u)     == u.Time = 0
Year(u)       == (u.Time \div TicksPerYear) + 1
Nanosecond(u) == u.Time % TicksPerSec
Unix(u)       == (u.Time - UnixEpoch) \div TicksPerSec
\* Date() and Clock() below the year: the second of the year.
SecondOfYear(u) == (u.Time % TicksPerYear) \div TicksPerSec

\* time.Unix(sec, nsec): nsec may lie outside a second; no monotonic reading.
TimeUnix(sec, nsec) == TimeOf(UnixEpoch + sec * TicksPerSec + nsec, FALSE)
\* time.Date(year, 1, 1, 0, 0, sec, nsec, time.UTC)
TimeDate(year, sec, nsec) ==
    TimeOf((year - 1) * TicksPerYear + sec * TicksPerSec + nsec, FALSE)

yearZeroOffsetSec == EpochYear * SecPerYear
Min == New(TimeDate(0, 0, 0))
Max == New(TimeDate(MaxYear, SecPerYear - 1, TicksPerSec - 1))

\* Equal: the same instant, whatever the monotonic readings.
Equal(u, v) == u.Time = v.Time
\* Truncate(d): down to a multiple of d since the zero time.
Truncate(u, d) == New(TimeOf(u.Time - (u.Time % d), FALSE))

\* The errors of the package, by their reason; NoErr is nil.
NoErr      == "nil"
ErrYear    == "year outside of range [0,9999]"
ErrLength  == "invalid length (expected 9)"
ErrParse   == "parse"
ErrJSON    == "json"

ValidateISO8601Lax(u) ==
    IF Year(u) < 0 \/ Year(u) > MaxYear + 1 THEN ErrYear ELSE NoErr
ValidateISO8601(u) ==
    IF Year(u) < 0 \/ Year(u) >= MaxYear + 1 THEN ErrYear ELSE NoErr

\* A byte slice is a sequence of bytes; nil has length 0.
NilBytes == << >>
\* byte(x >> 8*(n-1)), ..., byte(x): the low n bytes of x, high byte first.
BigEndian(x, n) == [i \in 1..n |-> (x \div (ByteBase ^ (n - i))) % ByteBase]
\* buf[n-1] | buf[n-2]<<8 | ... | buf[0]<<8*(n-1)
RECURSIVE FromBigEndian(_)
FromBigEndian(buf) ==
    IF buf = << >> THEN 0
    ELSE buf[Len(buf)] + ByteBase * FromBigEndian(SubSeq(buf, 1, Len(buf) - 1))

SecBytes  == 5
NsecBytes == 4

\* What a Marshal call returns: the bytes and the error.
NilNil == [data |-> NilBytes, err |-> NoErr]
Marshalled(data, e) == [NilNil EXCEPT !.data = data, !.err = e]
\* What an Unmarshal call leaves: the receiver and the error.
ZeroNil == [u |-> Zero, err |-> NoErr]
Unmarshalled(u, e) == [ZeroNil EXCEPT !.u = u, !.err = e]

MarshalBinaryNoOffset(u) ==
    IF IsZero(u) THEN Marshalled(NilBytes, NoErr)
    ELSE IF ValidateISO8601(u) # NoErr
         THEN Marshalled(NilBytes, ValidateISO8601(u))
    ELSE LET sec  == Uint64(Unix(u))
             nsec == Nanosecond(u) % (ByteBase ^ NsecBytes)
         IN  Marshalled(BigEndian(sec, SecBytes) \o BigEndian(nsec, NsecBytes),
                        NoErr)
MarshalBinary(u) ==
    IF IsZero(u) THEN Marshalled(NilBytes, NoErr)
    ELSE IF ValidateISO8601(u) # NoErr
         THEN Marshalled(NilBytes, ValidateISO8601(u))
    ELSE LET sec  == Uint64(Unix(u) + yearZeroOffsetSec)
             nsec == Nanosecond(u) % (ByteBase ^ NsecBytes)
         IN  Marshalled(BigEndian(sec, SecBytes) \o BigEndian(nsec, NsecBytes),
                        NoErr)

\* UnmarshalBinary on a receiver holding prev: the receiver and the error.
UnmarshalBinaryAcceptsLonger(prev, data) ==
    IF Len(data) = 0 THEN Unmarshalled(Zero, NoErr)
    ELSE IF Len(data) < SecBytes + NsecBytes
         THEN Unmarshalled(prev, ErrLength)
    ELSE LET sec  == FromBigEndian(SubSeq(data, 1, SecBytes))
             nsec == FromBigEndian(SubSeq(data, SecBytes + 1,
                                          SecBytes + NsecBytes))
             t    == TimeUnix(Int64(sec) - yearZeroOffsetSec, nsec)
         IN  Unmarshalled([Time |-> t.w, mono |-> TimeOf(t.w, FALSE)], NoErr)
UnmarshalBinaryIgnoresEmpty(prev, data) ==
    IF Len(data) = 0 THEN Unmarshalled(prev, NoErr)
    ELSE IF Len(data) # SecBytes + NsecBytes
         THEN Unmarshalled(prev, ErrLength)
    ELSE LET sec  == FromBigEndian(SubSeq(data, 1, SecBytes))
             nsec == FromBigEndian(SubSeq(data, SecBytes + 1, Len(data)))
             t    == TimeUnix(Int64(sec) - yearZeroOffsetSec, nsec)
         IN  Unmarshalled([Time |-> t.w, mono |-> TimeOf(t.w, FALSE)], NoErr)
UnmarshalBinaryNoOffset(prev, data) ==
    IF Len(data) = 0 THEN Unmarshalled(Zero, NoErr)
    ELSE IF Len(data) # SecBytes + NsecBytes
         THEN Unmarshalled(prev, ErrLength)
    ELSE LET sec  == FromBigEndian(SubSeq(data, 1, SecBytes))
             nsec == FromBigEndian(SubSeq(data, SecBytes + 1, Len(data)))
             t    == TimeUnix(Int64(sec), nsec)
         IN  Unmarshalled([Time |-> t.w, mono |-> TimeOf(t.w, FALSE)], NoErr)
UnmarshalBinary(prev, data) ==
    IF Len(data) = 0 THEN Unmarshalled(Zero, NoErr)
    ELSE IF Len(data) # SecBytes + NsecBytes
         THEN Unmarshalled(prev, ErrLength)
    ELSE LET sec  == FromBigEndian(SubSeq(data, 1, SecBytes))
             nsec == FromBigEndian(SubSeq(data, SecBytes + 1, Len(data)))
             t    == TimeUnix(Int64(sec) - yearZeroOffsetSec, nsec)
         IN  Unmarshalled([Time |-> t.w, mono |-> TimeOf(t.w, FALSE)], NoErr)

\* ------------------------------------------------- calls of the conversions
\* The instants converted: every tick from the year before Min to the year
\* after Max, with and without a monotonic reading.
CodecInstants ==
    { New(TimeOf(w, hm)) :
        w \in (-2 * TicksPerYear) .. ((MaxYear + 1) * TicksPerYear - 1),
        hm \in BOOLEAN }
InRange(u) == Min.Time <= u.Time /\ u.Time <= Max.Time
\* What the receiver of an Unmarshal call holds before the call.
Receivers == {Zero, U2}
\* Payloads handed to UnmarshalBinary that no MarshalBinary produced.
MaxLen   == 10
Payloads == UNION { [1..n -> {0, ByteBase - 1}] : n \in 0..MaxLen }

\* The record of a conversion that has returned: the value u converted (of
\* the Marshal call whose output is read back, for an Unmarshal call), the
\* receiver prev before the call and out after it, the bytes and the error.
NoConv == [op |-> "", u |-> NoVal, prev |-> NoVal, data |-> NoVal,
           out |-> NoVal, err |-> ""]
Conv(op, u, prev, data, out, e) ==
    [NoConv EXCEPT !.op = op, !.u = u, !.prev = prev, !.data = data,
                   !.out = out, !.err = e]

\* One conversion returns and leaves its record.
Converted(rec) ==
    /\ calls' = One(rec)
    /\ UNCHANGED <<shared, ops, history>>

\* The caller drops the result of the last conversion.
Dropped ==
    /\ calls # EmptyBag
    /\ calls' = EmptyBag
    /\ UNCHANGED <<shared, ops, history>>

CallValidateISO8601(u) ==
    Alone /\
    Converted(Conv("ValidateISO8601", u, NoVal, NoVal, NoVal,
                   ValidateISO8601(u)))

CallMarshalBinary(u) ==
    Alone /\
    Converted(Conv("MarshalBinary", u, NoVal, MarshalBinary(u).data, NoVal,
                   MarshalBinary(u).err))

\* UnmarshalBinary of the bytes the last MarshalBinary returned.
ReadBackBinary(prev) ==
    \E r \in BagToSet(calls) :
        /\ r.op = "MarshalBinary" /\ r.err = NoErr
        /\ Converted(Conv("UnmarshalBinary", r.u, prev, r.data,
                          UnmarshalBinary(prev, r.data).u,
                          UnmarshalBinary(prev, r.data).err))

\* UnmarshalBinary of any payload.
CallUnmarshalBinary(prev, data) ==
    Alone /\
    Converted(Conv("UnmarshalBinary", NoVal, prev, data,
                   UnmarshalBinary(prev, data).u,
                   UnmarshalBinary(prev, data).err))

\* ------------------------------------------------------------ text and JSON
\* A time string, by the layout that reads it and its fields: the year, the
\* date and time of day within the year, the milliseconds.  EmptyText is ""
\* as well as the nil slice; JunkText is a string no layout reads.
EmptyText == [kind |-> "", year |-> 0, sec |-> 0, ms |-> 0]
JunkText  == [EmptyText EXCEPT !.kind = "blub"]
Text(kind, year, sec, ms) ==
    [EmptyText EXCEPT !.kind = kind, !.year = year, !.sec = sec, !.ms = ms]

\* String(): the ISO8601 layout; the year is clamped to four digits, the
\* nanoseconds are cut to milliseconds.
StringRounded(u) ==
    LET year   == Year(u)
        millis == (Nanosecond(u) + TicksPerMs \div 2) \div TicksPerMs
    IN  Text("ISO8601",
             IF year > MaxYear THEN MaxYear ELSE IF year < 0 THEN 0 ELSE year,
             SecondOfYear(u), millis)
String(u) ==
    LET year   == Year(u)
        millis == Nanosecond(u) \div TicksPerMs
    IN  Text("ISO8601",
             IF year > MaxYear THEN MaxYear ELSE IF year < 0 THEN 0 ELSE year,
             SecondOfYear(u), millis)

\* FromString: the layouts in turn; a layout reads the strings of its kind
\* whose fields are in range.
Layouts == {"ISO8601", "ISO8601NoMilli", "ISO8601DateOnly"}
FromString(s) ==
    IF s.kind = "" THEN Unmarshalled(Zero, NoErr)
    ELSE IF /\ s.kind \in Layouts
            /\ s.year \in 0..MaxYear
            /\ s.sec \in 0..(SecPerYear - 1)
            /\ s.ms \in 0..(MsPerSec - 1)
         THEN Unmarshalled(New(TimeDate(s.year, s.sec, s.ms * TicksPerMs)),
                           NoErr)
    ELSE Unmarshalled(Zero, ErrParse)

MarshalText(u) ==
    IF IsZero(u) THEN Marshalled(EmptyText, NoErr)
    ELSE IF ValidateISO8601(u) # NoErr
         THEN Marshalled(EmptyText, ValidateISO8601(u))
    ELSE Marshalled(String(u), NoErr)

UnmarshalTextKeepsMono(prev, data) ==
    LET utc == FromString(data)
    IN  IF utc.err # NoErr THEN Unmarshalled(prev, utc.err)
        ELSE Unmarshalled([Time |-> utc.u.Time, mono |-> prev.mono], NoErr)
UnmarshalTextClearsReceiver(prev, data) ==
    LET utc == FromString(data)
    IN  Unmarshalled([Time |-> utc.u.Time,
                      mono |-> TimeOf(utc.u.Time, FALSE)], utc.err)
UnmarshalText(prev, data) ==
    LET utc == FromString(data)
    IN  IF utc.err # NoErr THEN Unmarshalled(prev, utc.err)
        ELSE Unmarshalled([Time |-> utc.u.Time,
                           mono |-> TimeOf(utc.u.Time, FALSE)], NoErr)

\* JSON bytes: a JSON string holding a time string, no bytes at all, or
\* bytes that are no JSON string.
NoJSON     == [json |-> "", s |-> EmptyText]
Quoted(s)  == [NoJSON EXCEPT !.json = "string", !.s = s]
JunkJSON   == [NoJSON EXCEPT !.json = "blub"]

MarshalJSON(u) ==
    IF IsZero(u) THEN Marshalled(Quoted(EmptyText), NoErr)
    ELSE IF ValidateISO8601(u) # NoErr
         THEN Marshalled(NoJSON, ValidateISO8601(u))
    ELSE Marshalled(Quoted(String(u)), NoErr)

UnmarshalJSON(prev, data) ==
    IF data.json # "string" THEN Unmarshalled(prev, ErrJSON)
    ELSE UnmarshalText(prev, data.s)

\* Time strings and JSON bytes that no Marshal call produced.
Texts == {EmptyText, JunkText,
          Text("ISO8601NoMilli", EpochYear, SecPerYear - 1, 0),
          Text("ISO8601DateOnly", 0, 0, 0),
          Text("ISO8601", MaxYear + 1, 0, 0)}
JSONs == {NoJSON, JunkJSON} \cup {Quoted(s) : s \in Texts}

CallFromString(s) ==
    Alone /\
    Converted(Conv("FromString", NoVal, NoVal, s, FromString(s).u,
                   FromString(s).err))

\* MustParse(s): FromString(s), and panic(err) when it returned an error.
\* err is the value of the panic, NoErr when the call returns; a call that
\* panics returns nothing.
MustParse(s) ==
    LET utc == FromString(s)
    IN  IF utc.err # NoErr THEN Unmarshalled(NoVal, utc.err)
        ELSE Unmarshalled(utc.u, NoErr)

CallMustParse(s) ==
    Alone /\
    Converted(Conv("MustParse", NoVal, NoVal, s, MustParse(s).u,
                   MustParse(s).err))

CallMarshalText(u) ==
    Alone /\
    Converted(Conv("MarshalText", u, NoVal, MarshalText(u).data, NoVal,
                   MarshalText(u).err))

ReadBackText(prev) ==
    \E r \in BagToSet(calls) :
        /\ r.op = "MarshalText" /\ r.err = NoErr
        /\ Converted(Conv("UnmarshalText", r.u, prev, r.data,
                          UnmarshalText(prev, r.data).u,
                          UnmarshalText(prev, r.data).err))

CallUnmarshalText(prev, data) ==
    Alone /\
    Converted(Conv("UnmarshalText", NoVal, prev, data,
                   UnmarshalText(prev, data).u,
                   UnmarshalText(prev, data).err))

CallMarshalJSON(u) ==
    Alone /\
    Converted(Conv("MarshalJSON", u, NoVal, MarshalJSON(u).data, NoVal,
                   MarshalJSON(u).err))

ReadBackJSON(prev) ==
    \E r \in BagToSet(calls) :
        /\ r.op = "MarshalJSON" /\ r.err = NoErr
        /\ Converted(Conv("UnmarshalJSON", r.u, prev, r.data,
                          UnmarshalJSON(prev, r.data).u,
                          UnmarshalJSON(prev, r.data).err))

CallUnmarshalJSON(prev, data) ==
    Alone /\
    Converted(Conv("UnmarshalJSON", NoVal, prev, data,
                   UnmarshalJSON(prev, data).u,
                   UnmarshalJSON(prev, data).err))

\* -------------------------------------------------------- Unix milliseconds
MinInt64 == -((ByteBase ^ WordBytes) \div 2)
MaxInt64 == MinInt64 + (ByteBase ^ WordBytes) - 1

\* Go's / and % on integers: the quotient is cut towards zero.
GoDiv(a, b) == IF a >= 0 THEN a \div b ELSE -((-a) \div b)
GoMod(a, b) == a - b * GoDiv(a, b)

\* The method u.UnixMilli(), computed in int64.
UTCUnixMilli(u) ==
    Int64(Int64(Unix(u) * MsPerSec) + Nanosecond(u) \div TicksPerMs)

\* The function UnixMilli(millis).
UnixMilliAbsRemainder(millis) ==
    LET rem == GoMod(millis, MsPerSec)
    IN  New(TimeUnix(GoDiv(millis, MsPerSec),
                     TicksPerMs * (IF rem < 0 THEN -rem ELSE rem)))
UnixMilli(millis) ==
    New(TimeUnix(GoDiv(millis, MsPerSec),
                 TicksPerMs * GoMod(millis, MsPerSec)))

\* The instants whose Unix time in milliseconds an int64 holds.
Representable(u) ==
    Unix(u) * MsPerSec + Nanosecond(u) \div TicksPerMs \in MinInt64..MaxInt64

\* Instants Unix(sec, nsec) builds about the two ends of that range.
FarSeconds ==
    { s \in MinInt64..MaxInt64 :
        \/ s - MaxInt64 \div MsPerSec \in -1..1
        \/ s - MinInt64 \div MsPerSec \in -2..0 }
FarInstants ==
    { New(TimeUnix(s, n)) : s \in FarSeconds, n \in 0..(TicksPerSec - 1) }

CallUTCUnixMilli(u) ==
    Alone /\
    Converted(Conv("t.UnixMilli()", u, NoVal, UTCUnixMilli(u), NoVal, NoErr))

\* UnixMilli of the number the last t.UnixMilli() returned.
ReadBackUnixMilli ==
    \E r \in BagToSet(calls) :
        /\ r.op = "t.UnixMilli()"
        /\ Converted(Conv("UnixMilli(t.UnixMilli())", r.u, NoVal, r.data,
                          UnixMilli(r.data), NoErr))

CallUnixMilli(millis) ==
    Alone /\
    Converted(Conv("UnixMilli(m)", NoVal, NoVal, millis, UnixMilli(millis),
                   NoErr))

\* UnixMilli() of the instant the last UnixMilli(m) returned; prev keeps m.
ReadBackUTCUnixMilli ==
    \E r \in BagToSet(calls) :
        /\ r.op = "UnixMilli(m)"
        /\ Converted(Conv("UnixMilli(m).UnixMilli()", r.out, r.data,
                          UTCUnixMilli(r.out), NoVal, NoErr))

InitCodec ==
    /\ nowFn = "now"
    /\ nowFnMu = FALSE
    /\ atomicClock = Nil
    /\ tcNow = [c \in Clocks |-> NoVal]
    /\ isMock = [c \in Clocks |-> FALSE]
    /\ realTime = T0
    /\ calls = EmptyBag
    /\ ops = 0
    /\ nowFnWrites = 0
    /\ installsDone = FALSE
    /\ overlapped = FALSE
    /\ quiet = FALSE

NextCodec ==
    \/ \E u \in CodecInstants : CallValidateISO8601(u)
    \/ \E u \in CodecInstants : CallMarshalBinary(u)
    \/ \E prev \in Receivers : ReadBackBinary(prev)
    \/ \E prev \in Receivers, data \in Payloads : CallUnmarshalBinary(prev, data)
    \/ \E s \in Texts : CallFromString(s)
    \/ \E s \in Texts : CallMustParse(s)
    \/ \E u \in CodecInstants : CallMarshalText(u)
    \/ \E prev \in Receivers : ReadBackText(prev)
    \/ \E prev \in Receivers, data \in Texts : CallUnmarshalText(prev, data)
    \/ \E u \in CodecInstants : CallMarshalJSON(u)
    \/ \E prev \in Receivers : ReadBackJSON(prev)
    \/ \E prev \in Receivers, data \in JSONs : CallUnmarshalJSON(prev, data)
    \/ \E u \in CodecInstants \cup FarInstants : CallUTCUnixMilli(u)
    \/ ReadBackUnixMilli
    \/ \E millis \in MinInt64..MaxInt64 : CallUnixMilli(millis)
    \/ ReadBackUTCUnixMilli
    \/ Dropped

SpecCodec == InitCodec /\ [][NextCodec]_vars

\* C23: MarshalBinary of an instant in [Min, Max], Zero among them, returns
\* no error, and UnmarshalBinary of the bytes it returned returns no error
\* and leaves in the receiver the instant marshalled, to the nanosecond.
C23_BinaryRoundTrip ==
    \A r \in BagToSet(calls) :
        /\ r.op = "MarshalBinary" /\ InRange(r.u) => r.err = NoErr
        /\ r.op = "UnmarshalBinary" /\ r.u # NoVal =>
               r.err = NoErr /\ Equal(r.out, r.u)

\* An instant of year 0, off the second and carrying a monotonic reading,
\* read back into a receiver that held another instant.
C23_Witness ==
    \E r \in BagToSet(calls) :
        /\ r.op = "UnmarshalBinary" /\ r.u # NoVal
        /\ Year(r.u) = 0 /\ Nanosecond(r.u) # 0 /\ r.u.mono.hm
        /\ r.prev = U2 /\ r.out.Time = r.u.Time
        /\ Len(r.data) = SecBytes + NsecBytes

\* C24: MarshalText and MarshalJSON of an instant in [Min, Max] return no
\* error, and UnmarshalText / UnmarshalJSON of the bytes they returned
\* return no error and leave in the receiver the instant marshalled, cut
\* down (not rounded) to the millisecond.
C24_TextRoundTripTruncates ==
    \A r \in BagToSet(calls) :
        /\ r.op \in {"MarshalText", "MarshalJSON"} /\ InRange(r.u) =>
               r.err = NoErr
        /\ r.op \in {"UnmarshalText", "UnmarshalJSON"} /\ r.u # NoVal =>
               r.err = NoErr /\ Equal(r.out, Truncate(r.u, TicksPerMs))

\* An instant before 1970 and off the millisecond read back from JSON, and
\* an instant less than a millisecond after Zero read back from text.
C24_Witness ==
    \E r \in BagToSet(calls) :
        /\ r.op \in {"UnmarshalText", "UnmarshalJSON"} /\ r.u # NoVal
        /\ r.u.Time % TicksPerMs # 0 /\ r.out.Time < r.u.Time
        /\ \/ r.op = "UnmarshalJSON" /\ Unix(r.u) < 0 /\ Year(r.u) = 0
           \/ r.op = "UnmarshalText" /\ r.u.Time \in 1..(TicksPerMs - 1)
                 /\ r.out = Zero /\ r.prev = U2

\* C25: ValidateISO8601 returns an error exactly for the instants before Min
\* (year below 0) and after Max (year above 9999); MarshalText, MarshalJSON
\* and MarshalBinary of such an instant return the error and nil, and of Min
\* and of Max no error and their encoding.
MarshalOps == {"MarshalText", "MarshalJSON", "MarshalBinary"}
NoOutput(r) ==
    \/ r.op = "MarshalText" /\ r.data = EmptyText
    \/ r.op = "MarshalJSON" /\ r.data = NoJSON
    \/ r.op = "MarshalBinary" /\ r.data = NilBytes
C25_InvalidYearFails ==
    \A r \in BagToSet(calls) :
        /\ r.op = "ValidateISO8601" =>
               (r.err # NoErr <=> ~InRange(r.u))
        /\ r.op \in MarshalOps /\ ~InRange(r.u) =>
               r.err = ErrYear /\ NoOutput(r)
        /\ r.op \in MarshalOps /\ (Equal(r.u, Min) \/ Equal(r.u, Max)) =>
               r.err = NoErr /\ ~NoOutput(r)

\* MarshalJSON of the first instant after Max.
C25_Witness ==
    \E r \in BagToSet(calls) :
        /\ r.op = "MarshalJSON" /\ r.u.Time = Max.Time + 1
        /\ r.err = ErrYear /\ r.data = NoJSON

\* C26: a zero value marshals without error to the empty text, to the JSON
\* string "" and to a payload of length 0; UnmarshalText of the empty text,
\* UnmarshalJSON of "" and UnmarshalBinary of no bytes return no error and
\* leave Zero in the receiver, whatever it held.
C26_ZeroIsEmpty ==
    \A r \in BagToSet(calls) :
        /\ r.op \in MarshalOps /\ IsZero(r.u) => r.err = NoErr
        /\ r.op = "MarshalText" /\ IsZero(r.u) => r.data = EmptyText
        /\ r.op = "MarshalJSON" /\ IsZero(r.u) => r.data = Quoted(EmptyText)
        /\ r.op = "MarshalBinary" /\ IsZero(r.u) => Len(r.data) = 0
        /\ r.op = "UnmarshalText" /\ r.data = EmptyText =>
               r.err = NoErr /\ r.out = Zero
        /\ r.op = "UnmarshalJSON" /\ r.data = Quoted(EmptyText) =>
               r.err = NoErr /\ r.out = Zero
        /\ r.op = "UnmarshalBinary" /\ Len(r.data) = 0 =>
               r.err = NoErr /\ r.out = Zero

\* The payload MarshalBinary returned for Zero, read into a receiver that
\* held an instant with a monotonic reading.
C26_Witness ==
    \E r \in BagToSet(calls) :
        /\ r.op = "UnmarshalBinary" /\ r.u = Zero /\ Len(r.data) = 0
        /\ r.prev = U2 /\ r.out = Zero

\* C27: MarshalBinary of an instant in [Min, Max] other than the zero value
\* returns SecBytes + NsecBytes (9) bytes: the first five are, high byte
\* first, the number Unix() + yearZeroOffsetSec, which is the seconds since
\* Min, at least 0 and below ByteBase^SecBytes (2^40), so that the bytes cut
\* off hold nothing; the last four are, high byte first, Nanosecond().
SecField(data)  == FromBigEndian(SubSeq(data, 1, SecBytes))
NsecField(data) == FromBigEndian(SubSeq(data, SecBytes + 1, Len(data)))
C27_BinaryLayout ==
    \A r \in BagToSet(calls) :
        r.op = "MarshalBinary" /\ InRange(r.u) /\ ~IsZero(r.u) =>
            /\ Len(r.data) = SecBytes + NsecBytes
            /\ \A i \in 1..Len(r.data) : r.data[i] \in 0..(ByteBase - 1)
            /\ SecField(r.data) = Unix(r.u) + yearZeroOffsetSec
            /\ SecField(r.data) = (r.u.Time - Min.Time) \div TicksPerSec
            /\ Unix(r.u) + yearZeroOffsetSec \in 0..(ByteBase ^ SecBytes - 1)
            /\ NsecField(r.data) = Nanosecond(r.u)
            /\ Equal(r.u, Min) => SecField(r.data) = 0

\* The bytes of an instant before 1970 and off the second, and of Min.
C27_Witness ==
    \E r \in BagToSet(calls) :
        /\ r.op = "MarshalBinary" /\ Len(r.data) = SecBytes + NsecBytes
        /\ \/ Unix(r.u) < 0 /\ SecField(r.data) > 0 /\ NsecField(r.data) > 0
           \/ Equal(r.u, Min) /\ SecField(r.data) = 0

\* C28: UnmarshalBinary returns no error exactly for the payloads of length
\* 0 and of length 9, whatever their bytes; for every other length, shorter
\* or longer, it returns the error of an invalid length.
C28_BinaryLengths ==
    \A r \in BagToSet(calls) :
        r.op = "UnmarshalBinary" =>
            /\ r.err = NoErr <=> Len(r.data) \in {0, 9}
            /\ Len(r.data) \notin {0, 9} => r.err = ErrLength

\* A payload one byte too long, refused.
C28_Witness ==
    \E r \in BagToSet(calls) :
        /\ r.op = "UnmarshalBinary" /\ Len(r.data) = 10
        /\ r.err = ErrLength /\ r.prev = U2 /\ r.out = U2

\* C29 as stated: for every instant t, UnixMilli(t.UnixMilli()) is t cut to
\* the millisecond, and for every int64 m, UnixMilli(m).UnixMilli() is m.
C29_UnixMilliRoundTrip ==
    \A r \in BagToSet(calls) :
        /\ r.op = "UnixMilli(t.UnixMilli())" =>
               Equal(r.out, Truncate(r.u, TicksPerMs))
        /\ r.op = "UnixMilli(m).UnixMilli()" => r.data = r.prev

\* C29 amended: for every instant t whose Unix time in milliseconds an int64
\* holds, UnixMilli(t.UnixMilli()) is t cut to the millisecond, and for
\* every int64 m, negative ones included, UnixMilli(m).UnixMilli() is m.
C29_UnixMilliRoundTripInRange ==
    \A r \in BagToSet(calls) :
        /\ r.op = "UnixMilli(t.UnixMilli())" /\ Representable(r.u) =>
               Equal(r.out, Truncate(r.u, TicksPerMs))
        /\ r.op = "UnixMilli(m).UnixMilli()" => r.data = r.prev

\* An instant before 1970 and off the millisecond brought back cut, and a
\* negative m off the second brought back.
C29_Witness ==
    \E r \in BagToSet(calls) :
        \/ /\ r.op = "UnixMilli(t.UnixMilli())" /\ Unix(r.u) < 0
           /\ r.u.Time % TicksPerMs # 0 /\ r.data < 0
           /\ r.out.Time = r.u.Time - (r.u.Time % TicksPerMs)
        \/ /\ r.op = "UnixMilli(m).UnixMilli()" /\ r.prev < 0
           /\ r.prev % MsPerSec # 0 /\ r.data = r.prev

\* C30: FromString, UnmarshalText, UnmarshalJSON and UnmarshalBinary, when
\* they return no error, produce a value whose mono is its wall time without
\* a monotonic reading; so a reading of WallClockMs comes back from
\* MarshalJSON and UnmarshalJSON identical, field by field, and a reading of
\* Mono does not.
ParseOps == {"FromString", "UnmarshalText", "UnmarshalJSON", "UnmarshalBinary"}
\* The readings of the system clock within the years marshalled.
WallReadings == Min.Time .. Max.Time
IsWallClockMsReading(u) ==
    \E tau \in WallReadings : u = WallClockNow(TRUE, tau)
IsMonoReading(u) == \E tau \in WallReadings : u = MonoNow(tau)
C30_ParsedMonoIsWall ==
    \A r \in BagToSet(calls) :
        /\ r.op \in ParseOps /\ r.err = NoErr =>
               r.out.mono = TimeOf(r.out.Time, FALSE)
        /\ r.op = "UnmarshalJSON" /\ r.u # NoVal /\ IsWallClockMsReading(r.u)
               => r.out = r.u
        /\ r.op = "UnmarshalJSON" /\ r.u # NoVal /\ IsMonoReading(r.u)
               => r.out # r.u

\* A WallClockMs reading read back identical into a receiver that held a
\* monotonic reading, and a Mono reading on the millisecond read back equal
\* in its wall time and different in its mono.
C30_Witness ==
    \E r \in BagToSet(calls) :
        /\ r.op = "UnmarshalJSON" /\ r.u # NoVal /\ ~IsZero(r.u)
        /\ \/ IsWallClockMsReading(r.u) /\ r.prev = U2 /\ r.out = r.u
           \/ /\ IsMonoReading(r.u) /\ r.out.Time = r.u.Time
              /\ r.out.mono # r.u.mono

\* ===================================================== time measurements
\* The system clock with its two readings told apart: the wall reading,
\* which an adjustment of the clock moves, and the monotonic reading, which
\* only the passing of time moves.  In this part realTime holds both.
MaxAdjust == 2    \* how far from real time the wall reading is adjusted
SysClock(wall, mono) == [wall |-> wall, mono |-> mono]

\* time.Now() when the system clock reads clk: wall w, monotonic reading m.
TimeNow(clk) == [w |-> clk.wall, hm |-> TRUE, m |-> clk.mono]

\* time.Time.Sub, After, Before: on the monotonic readings when both times
\* carry one, else on the wall readings.
TimeSub(t, u)    == IF t.hm /\ u.hm THEN t.m - u.m ELSE t.w - u.w
TimeAfter(t, u)  == IF t.hm /\ u.hm THEN t.m > u.m ELSE t.w > u.w
TimeBefore(t, u) == IF t.hm /\ u.hm THEN t.m < u.m ELSE t.w < u.w

\* UTC.Sub, After, Before.
SubOfWall(u, other) == u.Time - other.Time
Sub(u, other)    == TimeSub(u.mono, other.mono)
After(u, other)  == TimeAfter(u.mono, other.mono)
Before(u, other) == TimeBefore(u.mono, other.mono)

\* The values a goroutine takes at one instant: Mono(), WallClock(),
\* WallClockMs(), and a value that was parsed.
Samples(clk) ==
    LET n == New(TimeNow(clk))
    IN  {n, StripMono(n), Round(StripMono(n), TicksPerMs), U1}

\* The system clock moves on by one tick.
Elapse ==
    /\ realTime.mono < MaxTicks
    /\ realTime' = SysClock(realTime.wall + 1, realTime.mono + 1)
    /\ UNCHANGED <<nowFn, nowFnMu, atomicClock, tcNow, isMock, calls, ops,
                   history>>

\* The wall reading is set forwards or backwards.
AdjustWall(w) ==
    /\ w # realTime.wall
    /\ realTime' = SysClock(w, realTime.mono)
    /\ UNCHANGED <<nowFn, nowFnMu, atomicClock, tcNow, isMock, calls, ops,
                   history>>

\* The record of the values taken, a then b, and of a comparison of them.
Measured(rec) ==
    /\ calls' = One(rec)
    /\ UNCHANGED <<shared, ops, history>>

TakeFirst(a) ==
    Alone /\ Measured(Conv("a", a, NoVal, NoVal, NoVal, NoErr))

TakeSecond(b) ==
    \E r \in BagToSet(calls) :
        r.op = "a" /\ Measured(Conv("a,b", r.u, b, NoVal, NoVal, NoErr))

\* x.Sub(y), x.After(y), x.Before(y) and x.Equal(y), for x, y the two values
\* in either order; data holds what Sub returns, out the three booleans.
Compare(swap) ==
    \E r \in BagToSet(calls) :
        /\ r.op = "a,b"
        /\ LET x == IF swap THEN r.prev ELSE r.u
               y == IF swap THEN r.u ELSE r.prev
           IN  Measured(Conv("compared", x, y, Sub(x, y),
                             <<After(x, y), Before(x, y), Equal(x, y)>>,
                             NoErr))

InitMeasure ==
    /\ nowFn = "now"
    /\ nowFnMu = FALSE
    /\ atomicClock = Nil
    /\ tcNow = [c \in Clocks |-> NoVal]
    /\ isMock = [c \in Clocks |-> FALSE]
    /\ realTime = SysClock(T0, 0)
    /\ calls = EmptyBag
    /\ ops = 0
    /\ nowFnWrites = 0
    /\ installsDone = FALSE
    /\ overlapped = FALSE
    /\ quiet = FALSE

NextMeasure ==
    \/ Elapse
    \/ \E w \in (T0 + realTime.mono - MaxAdjust) ..
               (T0 + realTime.mono + MaxAdjust) : AdjustWall(w)
    \/ \E a \in Samples(realTime) : TakeFirst(a)
    \/ \E b \in Samples(realTime) : TakeSecond(b)
    \/ \E swap \in BOOLEAN : Compare(swap)
    \/ Dropped

SpecMeasure == InitMeasure /\ [][NextMeasure]_vars

\* C31: Sub, After and Before of two values are those of their mono fields:
\* when both carry a monotonic reading, Sub is the difference of the
\* monotonic readings and After and Before their order, whatever the wall
\* readings are and however the wall clock was set between the two; when
\* one of them carries none, they are the difference and the order of the
\* wall readings.
Genuine(u) == u.mono.hm
GoInstants  == {Zero, U1, U2}
GoDurations == {TicksPerMs, 2 * TicksPerMs}

\* The calls still running.
InFlight == {r \in Calls : Running(r)}

\* A goroutine is free to start a call.
GoFree ==
    /\ ops < MaxOps
    /\ BagCardinality([r \in InFlight |-> CopiesIn(r, calls)]) < NThreads

\* Slip: set stores the new pointer and returns what it stored.
GoSetReturnsNew(c, u) ==
    /\ GoFree
    /\ tcNow' = [tcNow EXCEPT ![c] = setTarget(c, u)]
    /\ calls' = calls (+) One([NewCall("Set", "done")
                                  EXCEPT !.c = c, !.v = u,
                                         !.ret = Deref(setTarget(c, u))])
    /\ ops' = ops + 1
    /\ UNCHANGED <<nowFn, nowFnMu, atomicClock, isMock, realTime, history>>

\* TestClock.Set(u) = c.set(u): ret := c.now.Swap(n), one atomic step that
\* stores the pointer and returns the one it replaced, Zero for nil.
GoSet(c, u) ==
    /\ GoFree
    /\ tcNow' = [tcNow EXCEPT ![c] = setTarget(c, u)]
    /\ calls' = calls (+) One([NewCall("Set", "done")
                                  EXCEPT !.c = c, !.v = u,
                                         !.ret = Deref(tcNow[c])])
    /\ ops' = ops + 1
    /\ UNCHANGED <<nowFn, nowFnMu, atomicClock, isMock, realTime, history>>

\* TestClock.Unset() = c.set(Zero).
GoUnset(c) == GoSet(c, Zero)

\* TestClock.Add(d): n := c.Now(), the load of c.now.
GoAdd(c, d) ==
    /\ GoFree
    /\ calls' = calls (+) One(
          IF IsUnset(tcNow[c])
          THEN [NewCall("Add", "add_wc") EXCEPT !.c = c, !.d = d]
          ELSE [NewCall("Add", "add_set") EXCEPT !.c = c, !.d = d,
                                                 !.v = tcNow[c]])
    /\ ops' = ops + 1
    /\ UNCHANGED <<shared, history>>

\* TestClock.Add(d): c.Now() of an unset clock returns c.wc().
GoAddWc(r) ==
    /\ r.pc = "add_wc"
    /\ \E tau \in Readings :
          /\ realTime' = tau
          /\ Step(r, [r EXCEPT !.pc = "add_set", !.read = tau,
                               !.v = wc(r.c, tau)])
    /\ UNCHANGED <<nowFn, nowFnMu, atomicClock, tcNow, isMock, ops, history>>

\* TestClock.Add(d): ret := n.Add(d); c.Set(ret); return ret.
GoAddSet(r) ==
    /\ r.pc = "add_set"
    /\ tcNow' = [tcNow EXCEPT ![r.c] = setTarget(r.c, Add(r.v, r.d))]
    /\ Step(r, [r EXCEPT !.pc = "done", !.ret = Add(r.v, r.d)])
    /\ UNCHANGED <<nowFn, nowFnMu, atomicClock, isMock, realTime, ops,
                   history>>

NextGo ==
    \/ \E c \in Clocks, u \in GoInstants : GoSet(c, u)
    \/ \E c \in Clocks : GoUnset(c)
    \/ \E c \in Clocks, d \in GoDurations : GoAdd(c, d)
    \/ \E r \in Calls : GoAddWc(r)
    \/ \E r \in Calls : GoAddSet(r)

SpecGo == Init /\ [][NextGo]_vars

\* The instant clock c records for a Set(u): u after the clock's policy.
Kept(c, u) == Deref(setTarget(c, u))

\* C32: when Add(d1) and Add(d2) run on a clock set to t and both have
\* returned, the clock records t + d1 + d2 and the calls returned t + d1 and
\* t + d1 + d2 in one of the two orders.  The calls are a Set(t) and two Adds
\* of the same clock that both loaded a set instant, so that the Set came
\* first.
C32_AddsNotLost ==
    \A s \in Calls, a \in Calls, b \in Calls :
       (/\ calls = One(s) (+) One(a) (+) One(b)
        /\ s.op = "Set" /\ a.op = "Add" /\ b.op = "Add"
        /\ a.pc = "done" /\ b.pc = "done"
        /\ a.c = s.c /\ b.c = s.c
        /\ a.read = 0 /\ b.read = 0)
       => LET t == Kept(s.c, s.v)
          IN /\ Deref(tcNow[s.c]) = Add(Add(t, a.d), b.d)
             /\ \/ a.ret = Add(t, a.d) /\ b.ret = Add(Add(t, a.d), b.d)
                \/ b.ret = Add(t, b.d) /\ a.ret = Add(Add(t, b.d), a.d)

\* The calls made on clock c, and how many they are.
OnClock(c) == {r \in Calls : r.c = c}
CountOn(c) == BagCardinality([r \in OnClock(c) |-> CopiesIn(r, calls)])

\* The total orders of the calls made on clock c.
Orders(c) ==
    {f \in [1..CountOn(c) -> OnClock(c)] :
        \A r \in OnClock(c) :
           Cardinality({i \in 1..CountOn(c) : f[i] = r}) = CopiesIn(r, calls)}

\* In the order f every call returned what its predecessor stored, the first
\* one Zero, and the clock records what the last call stored.
Linearized(c, f) ==
    /\ \A i \in 1..CountOn(c) :
          f[i].ret = IF i = 1 THEN Zero ELSE Kept(c, f[i - 1].v)
    /\ Deref(tcNow[c]) =
          IF CountOn(c) = 0 THEN Zero ELSE Kept(c, f[CountOn(c)].v)

\* C33: concurrent Set and Unset calls on one TestClock are linearizable:
\* while only Set and Unset calls have been made on a clock, there is a total
\* order of them in which each call returned the instant its predecessor
\* stored (Zero after an Unset or for the first call) and the clock records
\* the instant the last call stored.
C33_SetLinearizable ==
    \A c \in Clocks :
       (\A r \in OnClock(c) : r.op = "Set")
       => \E f \in Orders(c) : Linearized(c, f)

\* Three Set / Unset calls were made on one clock, an Unset among them, one
\* of them returned a set instant, and the clock is left set.
C33_Witness ==
    \E c \in Clocks :
       /\ CountOn(c) = 3
       /\ \A r \in OnClock(c) : r.op = "Set"
       /\ \E r \in OnClock(c) : r.v = Zero
       /\ \E r \in OnClock(c) : r.ret # Zero
       /\ tcNow[c] # NoVal

\* C34: every payload of SecBytes + NsecBytes (9) bytes that UnmarshalBinary
\* accepts decodes to a value that passes ValidateISO8601 and that
\* MarshalBinary encodes back to the same bytes, for all values of the
\* seconds field and of the nanosecond field.
C34_AcceptedPayloadIsValid ==
    \A r \in BagToSet(calls) :
        (/\ r.op = "UnmarshalBinary"
         /\ Len(r.data) = SecBytes + NsecBytes
         /\ r.err = NoErr)
        => /\ ValidateISO8601(r.out) = NoErr
           /\ MarshalBinary(r.out) = Marshalled(r.data, NoErr)

\* C36: when UnmarshalText, UnmarshalJSON or UnmarshalBinary returns an
\* error the receiver holds exactly the value it held before the call, its
\* monotonic reading included; FromString returns Zero together with an
\* error; MustParse panics exactly when FromString of the same string
\* returns an error, with that error, and otherwise returns what FromString
\* returns.
UnmarshalOps == {"UnmarshalText", "UnmarshalJSON", "UnmarshalBinary"}
C36_ErrorKeepsReceiver ==
    \A r \in BagToSet(calls) :
        /\ (r.op \in UnmarshalOps /\ r.err # NoErr) => r.out = r.prev
        /\ (r.op = "FromString" /\ r.err # NoErr) => r.out = Zero
        /\ r.op = "MustParse" =>
              /\ r.err # NoErr <=> FromString(r.data).err # NoErr
              /\ r.err = FromString(r.data).err
              /\ r.err = NoErr => r.out = FromString(r.data).u
              /\ r.err # NoErr => r.out = NoVal

\* UnmarshalJSON of a JSON string that no layout reads has returned the
\* error of the parse and left the receiver, a reading with its monotonic
\* part, as it was.
C36_Witness ==
    \E r \in BagToSet(calls) :
        /\ r.op = "UnmarshalJSON" /\ r.data = Quoted(JunkText)
        /\ r.prev = U2 /\ r.prev.mono.hm
        /\ r.err = ErrParse /\ r.out = U2

\* C37: the comparisons are a trichotomy: of x.After(y), x.Before(y) and
\* x.Equal(y) exactly one holds for any two values, readings with a
\* monotonic part included.
C37_Trichotomy ==
    \A r \in BagToSet(calls) :
        r.op = "compared" =>
            Cardinality({i \in 1..3 : r.out[i]}) = 1

\* ===================================================================
\* One goroutine calling utc.Now(), Mono(), WallClock() and WallClockMs(),
\* followed through the calls they make, whatever the registry holds.
MaxDepth == 2    \* activations of Now() a goroutine's stack has room for

\* The frame of a call.  Its fields:
\*   op      the function called
\*   pc      the function the call is about to enter, "done" once returned
\*   depth   the activations of utc.Now() entered
\*   clk     the Clock getClock() returned
\*   policy  the policy clock that is reading the time, 0 when none is
\*   read    the reading taken of the system clock, 0 if none
\*   ret     what the call returned
NoFrame == [op |-> "", pc |-> "", depth |-> 0, clk |-> NoCap, policy |-> 0,
            read |-> 0, ret |-> NoVal]

\* TestClock.wc(): the policy clock of the clock's flags.
PolicyOf(c) ==
    IF ~TcMono(c) THEN IF TcMs(c) THEN WallClockMs ELSE WallClock
    ELSE MonoClock

\* What mono.Now() and wallClock.Now() make of the reading tau of now();
\* now() itself when no policy clock is reading.
PolicyReading(p, tau) ==
    IF p = MonoClock THEN MonoNow(tau)
    ELSE IF p = WallClockMs THEN WallClockNow(TRUE, tau)
    ELSE IF p = WallClock THEN WallClockNow(FALSE, tau)
    ELSE now(tau)

\* The frame r becomes r2.
Framed(r, r2) ==
    /\ calls' = One(r2)
    /\ UNCHANGED <<nowFn, nowFnMu, atomicClock, tcNow, isMock, ops, history>>

\* utc.Now() is called.
CallNow ==
    /\ Alone /\ ops < MaxOps
    /\ calls' = One([NoFrame EXCEPT !.op = "Now", !.pc = "Now"])
    /\ ops' = ops + 1
    /\ UNCHANGED <<shared, history>>

\* Mono(), WallClock() or WallClockMs() is called.
CallPolicyClock(p) ==
    /\ Alone /\ ops < MaxOps
    /\ calls' = One([NoFrame EXCEPT !.op = "PolicyClock", !.pc = "policy",
                                    !.policy = p])
    /\ ops' = ops + 1
    /\ UNCHANGED <<shared, history>>

\* Now(): return nowFn(), which is now or nowFnClock.  Every activation
\* takes room on the stack.
EnterNow(r) ==
    /\ r.pc = "Now" /\ r.depth < MaxDepth
    /\ Framed(r, [r EXCEPT !.depth = @ + 1,
                           !.pc = IF nowFn = "now" THEN "now" ELSE "getClock"])
    /\ UNCHANGED realTime

\* nowFnClock: getClock().Now(), the load of the registry.
FrameGetClock(r) ==
    /\ r.pc = "getClock"
    /\ Framed(r, [r EXCEPT !.clk = getClock, !.pc = "Clock.Now"])
    /\ UNCHANGED realTime

\* Clock.Now(): TestClock.Now returns the instant it holds or goes on to
\* c.wc(); ClockFn.Now calls its function, now for the default clock.
FrameClockNow(r) ==
    /\ r.pc = "Clock.Now"
    /\ Framed(r, IF r.clk.kind = "tc"
                 THEN IF IsUnset(tcNow[r.clk.c])
                      THEN [r EXCEPT !.pc = "wc"]
                      ELSE [r EXCEPT !.pc = "done", !.ret = tcNow[r.clk.c]]
                 ELSE IF r.clk.kind = "fn"
                 THEN [r EXCEPT !.pc = "done", !.ret = r.clk.v]
                 ELSE [r EXCEPT !.pc = "now"])
    /\ UNCHANGED realTime

\* TestClock.wc(): return WallClockMs(), WallClock() or Mono().
FrameWc(r) ==
    /\ r.pc = "wc"
    /\ Framed(r, [r EXCEPT !.pc = "policy", !.policy = PolicyOf(r.clk.c)])
    /\ UNCHANGED realTime

\* Slip: the policy clocks read the time with Now(), through the registry.
PolicyClockCallsNow(r) ==
    /\ r.pc = "policy"
    /\ Framed(r, [r EXCEPT !.pc = "Now"])
    /\ UNCHANGED realTime

\* wall.Now(), wallMs.Now(), monotonic.Now(): each calls now().
PolicyClockNow(r) ==
    /\ r.pc = "policy"
    /\ Framed(r, [r EXCEPT !.pc = "now"])
    /\ UNCHANGED realTime

\* now(): New(time.Now()); the callers return what they make of it.
FrameNow(r) ==
    /\ r.pc = "now"
    /\ \E tau \in Readings :
          /\ realTime' = tau
          /\ Framed(r, [r EXCEPT !.pc = "done", !.read = tau,
                                 !.ret = PolicyReading(r.policy, tau)])

\* The registry as an install or a reset may have left it, and the
\* TestClocks of the three policies, each set or unset.
RegistryStates ==
    {<<"now", Nil>>}
    \cup {<<"nowFnClock", k>> :
            k \in {Nil, DefaultClock} \cup {FnClock(v) : v \in MockInstants}
                  \cup {TcClock(c) : c \in Policies}}

InitNow ==
    /\ \E s \in RegistryStates : nowFn = s[1] /\ atomicClock = s[2]
    /\ nowFnMu = FALSE
    /\ tcNow \in [Policies -> {NoVal, U2}]
    /\ isMock = [c \in Policies |-> atomicClock = TcClock(c)]
    /\ realTime = T0
    /\ calls = EmptyBag
    /\ ops = 0
    /\ nowFnWrites = 0
    /\ installsDone = FALSE
    /\ overlapped = FALSE
    /\ quiet = FALSE

\* A step of the call in progress.
FrameStep ==
    \/ \E r \in Calls : EnterNow(r)
    \/ \E r \in Calls : FrameGetClock(r)
    \/ \E r \in Calls : FrameClockNow(r)
    \/ \E r \in Calls : FrameWc(r)
    \/ \E r \in Calls : PolicyClockNow(r)
    \/ \E r \in Calls : FrameNow(r)

NextNow ==
    \/ CallNow
    \/ \E p \in Policies : CallPolicyClock(p)
    \/ FrameStep
    \/ \E r \in Calls : Return(r)

\* The goroutine runs: a call that can take a step takes one.
SpecNow == InitNow /\ [][NextNow]_vars /\ WF_vars(FrameStep)

\* C35: utc.Now() terminates whatever the registry holds, a TestClock set or
\* unset included: a call in progress returns, it enters Now() once and no
\* more, and when the active TestClock is unset it returns the reading its
\* policy clock makes of the system clock.  Mono(), WallClock() and
\* WallClockMs() never enter Now() and return their reading of the system
\* clock whatever is installed.
InCall == \E r \in Calls : Running(r)
Answered == \E r \in Calls : r.pc = "done"
C35_Direct ==
    \A r \in Calls :
        /\ r.op = "Now" => r.depth <= 1
        /\ r.op = "PolicyClock" => r.depth = 0
        /\ (r.pc = "done" /\ r.op = "PolicyClock") =>
              /\ r.read = realTime
              /\ r.ret = PolicyReading(r.policy, r.read)
        /\ (/\ r.pc = "done" /\ r.op = "Now"
            /\ nowFn = "nowFnClock" /\ ActiveClock.kind = "tc") =>
              LET c == ActiveClock.c
              IN  IF IsUnset(tcNow[c])
                  THEN r.read = realTime /\ r.ret = wc(c, r.read)
                  ELSE r.read = 0 /\ r.ret = tcNow[c]
C35_NowTerminates == []C35_Direct /\ (InCall ~> Answered)

\* Now() has entered once and returned the reading of the policy clock of an
\* unset TestClock that is the active clock.
C35_Witness ==
    \E r \in Calls :
        /\ r.pc = "done" /\ r.op = "Now" /\ r.depth = 1
        /\ nowFn = "nowFnClock" /\ ActiveClock.kind = "tc"
        /\ IsUnset(tcNow[ActiveClock.c])
        /\ r.read = realTime /\ r.ret = wc(ActiveClock.c, realTime)

\* ===================================================================
\* The two builds of the registry, without and with the race detector, side
\* by side: the same sequence of setClock and getClock calls is made on
\* each, one call after the other.
NilClock == [kind |-> "nilClock"]    \* the nil Clock

\* The package state of a build:
\*   slot      the variable clock (!race), or what atomicClock points to
\*             (race): Nil for the nil pointer, else the field c
\*   unMocked  how many times UnMocked() was called on each TestClock
\*   ret       what the last getClock() returned
NoBuild == [slot |-> NilClock, unMocked |-> [c \in Clocks |-> 0],
            ret |-> NoCap]

\* if unm, ok := old.(um); ok { unm.UnMocked() }: only a TestClock has
\* the method; the nil Clock and a ClockFn have not.
UnMockedOn(b, old) ==
    IF old.kind = "tc" THEN [b EXCEPT !.unMocked[old.c] = @ + 1] ELSE b

\* !race: ret := clock; clockFn(now) when it is nil.
getClockPlain(b) == IF b.slot = NilClock THEN DefaultClock ELSE b.slot

\* !race: old := clock; clock = c; notify old.
setClockPlain(b, c) == UnMockedOn([b EXCEPT !.slot = c], b.slot)

\* Slip: the race build returns m.c whenever the pointer is not nil.
getClockRaceNoNilCheck(b) ==
    IF b.slot # Nil THEN b.slot ELSE DefaultClock

\* race: fn = clockFn(now); m := atomicClock.Load(); m.c when m and m.c are
\* not nil.
getClockRace(b) ==
    IF b.slot # Nil /\ b.slot # NilClock THEN b.slot ELSE DefaultClock

\* race: old := getClock(); atomicClock.Store(&clocker{c: c}); notify old.
setClockRace(b, c) == UnMockedOn([b EXCEPT !.slot = c], getClockRace(b))

\* The Clocks handed to setClock: nil, ClockFn(now) as ResetNow and init()
\* hand it, function mocks, a TestClock.
StoredClocks ==
    {NilClock, DefaultClock} \cup {FnClock(v) : v \in {U1, U2}}
    \cup {TcClock(c) : c \in Clocks}

\* The two builds after the calls made so far, and the last call.
NoSides == [op |-> "", cap |-> NoCap, plain |-> NoBuild,
            race |-> [NoBuild EXCEPT !.slot = Nil]]

BothSetClock(c) ==
    /\ ops < MaxOps
    /\ \E r \in Calls :
          calls' = One([r EXCEPT !.op = "setClock", !.cap = c,
                                 !.plain = setClockPlain(r.plain, c),
                                 !.race = setClockRace(r.race, c)])
    /\ ops' = ops + 1
    /\ UNCHANGED <<shared, history>>

BothGetClock ==
    /\ ops < MaxOps
    /\ \E r \in Calls :
          calls' = One([r EXCEPT !.op = "getClock", !.cap = NoCap,
                                 !.plain.ret = getClockPlain(r.plain),
                                 !.race.ret = getClockRace(r.race)])
    /\ ops' = ops + 1
    /\ UNCHANGED <<shared, history>>

InitBuilds ==
    /\ nowFn = "now"
    /\ nowFnMu = FALSE
    /\ atomicClock = Nil
    /\ tcNow = [c \in Clocks |-> NoVal]
    /\ isMock = [c \in Clocks |-> FALSE]
    /\ realTime = T0
    /\ calls = One(NoSides)
    /\ ops = 0
    /\ nowFnWrites = 0
    /\ installsDone = FALSE
    /\ overlapped = FALSE
    /\ quiet = FALSE

NextBuilds ==
    \/ \E c \in StoredClocks : BothSetClock(c)
    \/ BothGetClock

SpecBuilds == InitBuilds /\ [][NextBuilds]_vars

\* C38: after any sequence of setClock and getClock calls made one after
\* the other, the two builds expose the same active clock, the default clock
\* when nothing or nil was stored, every getClock call has returned the same
\* clock in both, and the same TestClocks have been notified the same number
\* of times.
C38_BuildsEquivalent ==
    \A r \in Calls :
        /\ getClockPlain(r.plain) = getClockRace(r.race)
        /\ r.plain.ret = r.race.ret
        /\ r.plain.unMocked = r.race.unMocked
        /\ (r.plain.slot = NilClock /\ r.race.slot \in {Nil, NilClock})
              => getClockRace(r.race) = DefaultClock

\* A TestClock was stored and then nil: getClock has returned the default
\* clock in both builds and the TestClock was notified once in both.
C38_Witness ==
    \E r \in Calls, c \in Clocks :
        /\ r.op = "getClock"
        /\ r.plain.slot = NilClock /\ r.race.slot = NilClock
        /\ r.plain.ret = DefaultClock /\ r.race.ret = DefaultClock
        /\ r.plain.unMocked[c] = 1 /\ r.race.unMocked[c] = 1

====
